---------------------------- MODULE Spec2Model ----------------------------
(***************************************************************************)
(* typed-di: request-scoped dependency resolution and resource lifecycle.  *)
(*                                                                         *)
(* The model follows src/typed_di: _scope.py, _utils.py (shape analysis),  *)
(* _contexts.py (scope chain), _create.py (creation engine) and            *)
(* _invoke.py (invocation driver).  Producers are the factories of the     *)
(* test suite (src/tests).  One environment action is one call of the      *)
(* public API made by a single flow of control: enter_next_scope, leaving  *)
(* a scope guard, create and invoke.  A call runs to completion inside its *)
(* action, every recursive creation, cache write, resource acquisition     *)
(* and tracker update included.                                            *)
(***************************************************************************)
EXTENDS Integers, Sequences, FiniteSets, TLC

(***************************************************************************)
(* Bounds of the model.                                                    *)
(***************************************************************************)
\* app instances ever entered from the root
MaxApps == 2
\* handler (request) instances ever entered, all apps together
MaxHandlers == 2
\* guards of an entered handler instance the caller has open at a time, on
\* top of the one that entered it
MaxNested == 1
\* instances of a kind ever entered by the caller that keeps its instances
MaxKept == 1
\* calls the caller runs concurrently
MaxTasks == 2

(***************************************************************************)
(* Types.  A type is its nesting of wrappers, outermost first, around a    *)
(* concrete class: Awaitable[ContextManager[Foo]] is wr = <<"aw","cm">>,   *)
(* cls = "Foo".  "cm" is ContextManager, "acm" AsyncContextManager, "aw"   *)
(* Awaitable/Coroutine.  Depends[T] is represented by T.                   *)
(***************************************************************************)
Wrappers == {"cm", "acm", "aw"}

T(wr, cls) == [wr |-> wr, cls |-> cls]

Foo == T(<<>>, "Foo")
Object == T(<<>>, "object")
Bar == T(<<>>, "Bar")
NoType == T(<<>>, "-")

\* a parameter of a callable: `name: Depends[type] = Depends(default)`;
\* default "" is a parameter without default (resolved by name)
P(name, type, default) ==
    [name |-> name, type |-> type, default |-> default, annotation |-> "Depends[T]",
     kind |-> "POSITIONAL_OR_KEYWORD", bad_default |-> FALSE]

\* a callable: __app_scope__ marker, inspect.iscoroutinefunction, the
\* contextlib decorator it is wrapped by ("none", "cm", "acm"), its declared
\* return type (the yielded type for a decorated generator) and parameters
F(app, coro, dec, ret, params) ==
    [app_scope |-> app, coro |-> coro, decorated |-> dec, ret |-> ret, params |-> params,
     return_annotation |-> TRUE]

(***************************************************************************)
(* The callables of the test suite.                                        *)
(***************************************************************************)
Factories ==
    [ \* tests/shared.py
      sync_foo |-> F(FALSE, FALSE, "none", Foo, <<>>),
      cm_foo |-> F(FALSE, FALSE, "none", T(<<"cm">>, "Foo"), <<>>),
      async_foo |-> F(FALSE, TRUE, "none", Foo, <<>>),
      async_cm_foo |-> F(FALSE, FALSE, "none", T(<<"acm">>, "Foo"), <<>>),
      \* an asynchronous producer of a scoped resource:
      \*   async def async_make_cm() -> ContextManager[Foo]
      async_make_cm |-> F(FALSE, TRUE, "none", T(<<"cm">>, "Foo"), <<>>),
      \* tests/test_caching.py: create_smth under @contextmanager / @asynccontextmanager
      gen_cm |-> F(FALSE, FALSE, "cm", Object, <<>>),
      gen_acm |-> F(FALSE, FALSE, "acm", Object, <<>>),
      \* tests/test_caching.py: app scoped create_smth and its handler scoped user
      create_smth |-> F(TRUE, FALSE, "none", Object, <<>>),
      smth_transitive |-> F(FALSE, FALSE, "none", Object,
                            << P("dep", Object, "create_smth") >>),
      \* tests/test_invoke.py TestLifespans
      app_dep_factory1 |-> F(TRUE, FALSE, "acm", Foo, <<>>),
      app_dep_factory2 |-> F(TRUE, FALSE, "acm", Foo, <<>>),
      handler_dep_factory1 |-> F(FALSE, FALSE, "acm", Foo,
                                 << P("app_dep", Foo, "app_dep_factory1") >>),
      handler_dep_factory2 |-> F(FALSE, FALSE, "acm", Foo,
                                 << P("app_dep", Foo, "app_dep_factory2") >>),
      handler_no_app_dep_factory |-> F(FALSE, FALSE, "acm", Foo, <<>>),
      lifespan_fn |-> F(FALSE, TRUE, "none", T(<<>>, "None"),
                        << P("handler_dep", Foo, "handler_dep_factory1") >>),
      lifespan_fn_v2 |-> F(FALSE, TRUE, "none", T(<<>>, "None"),
                           << P("handler_dep1", Foo, "handler_dep_factory1"),
                              P("handler_dep2", Foo, "handler_dep_factory2") >>),
      \* tests/test_invoke.py TestScopingRules.test_from_app_to_handler, with
      \* the producers of TestLifespans
      app_to_handler_fn |-> F(FALSE, TRUE, "none", T(<<>>, "tuple"),
                              << P("a_dep", Foo, "app_dep_factory1"),
                                 P("h_dep", Foo, "handler_dep_factory1") >>),
      \* tests/test_invoke.py TestScopingRules
      handler_dep |-> F(FALSE, FALSE, "none", T(<<>>, "int"), <<>>),
      app_dep |-> F(TRUE, FALSE, "none", T(<<>>, "str"),
                    << P("dep", T(<<>>, "int"), "handler_dep") >>),
      scoping_fn |-> F(FALSE, TRUE, "none", T(<<>>, "tuple"),
                       << P("a_dep", T(<<>>, "str"), "app_dep"),
                          P("h_dep", T(<<>>, "int"), "handler_dep") >>),
      scoping_fn_rev |-> F(FALSE, TRUE, "none", T(<<>>, "tuple"),
                           << P("h_dep", T(<<>>, "int"), "handler_dep"),
                              P("a_dep", T(<<>>, "str"), "app_dep") >>),
      handler_fn |-> F(FALSE, TRUE, "none", T(<<>>, "None"),
                       << P("foo", Foo, "sync_foo") >>),
      implicit_fn |-> F(FALSE, TRUE, "none", T(<<>>, "None"),
                        << P("smth", Object, "") >>),
      \* one producer reached by several routes: explicitly under two
      \* parameter names, by name, and through two parent producers
      parent1 |-> F(FALSE, FALSE, "none", Foo, << P("foo", Foo, "sync_foo") >>),
      parent2 |-> F(FALSE, FALSE, "none", Foo, << P("x", Foo, "sync_foo") >>),
      routes_fn |-> F(FALSE, TRUE, "none", T(<<>>, "None"),
                      << P("via1", Foo, "parent1"), P("a", Foo, "sync_foo"),
                         P("smth", Foo, ""), P("b", Foo, "sync_foo"),
                         P("via2", Foo, "parent2") >>),
      \* tests/test_ambiguous_dependencies.py TestForCM
      forms_fn |-> F(FALSE, TRUE, "none", T(<<>>, "None"),
                     << P("cm_from_callable", T(<<"cm">>, "Foo"), "cm_foo"),
                        P("val_from_cm", Foo, "cm_foo") >>),
      forms_dep |-> F(FALSE, TRUE, "none", T(<<>>, "None"),
                      << P("val_from_cm", Foo, "cm_foo") >>),
      forms_fn_v2 |-> F(FALSE, TRUE, "none", T(<<>>, "None"),
                        << P("dep_", T(<<>>, "None"), "forms_dep"),
                           P("cm_from_callable", T(<<"cm">>, "Foo"), "cm_foo") >>),
      \* a cycle f -> g -> f, a factory h that leads into it and a callable that
      \* enters it after a sibling
      cycle_f |-> F(FALSE, FALSE, "none", Foo, << P("g", Foo, "cycle_g") >>),
      cycle_g |-> F(FALSE, FALSE, "none", Foo, << P("f", Foo, "cycle_f") >>),
      cycle_h |-> F(FALSE, FALSE, "none", Foo, << P("f", Foo, "cycle_f") >>),
      cycle_fn |-> F(FALSE, TRUE, "none", T(<<>>, "None"),
                     << P("foo", Foo, "sync_foo"), P("f", Foo, "cycle_f") >>),
      \* tests/test_factories_override.py; other_factory is a second level
      \* of substitution
      orig_factory |-> F(FALSE, FALSE, "none", Foo, <<>>),
      mocked_subdep_factory |-> F(FALSE, FALSE, "none", T(<<>>, "str"), <<>>),
      mocked_factory |-> F(FALSE, FALSE, "none", Foo,
                           << P("v", T(<<>>, "str"), "mocked_subdep_factory") >>),
      other_factory |-> F(FALSE, FALSE, "none", Foo, <<>>),
      override_fn |-> F(FALSE, TRUE, "none", Foo,
                        << P("dep", Foo, "orig_factory") >>),
      override_implicit_fn |-> F(FALSE, TRUE, "none", Foo, << P("dep", Foo, "") >>),
      \* tests/test_factories_override.py test_invoke_error_sets_override_orig
      will_cause_exc |-> F(FALSE, FALSE, "none", Object, <<>>),
      orig_app_factory |-> F(TRUE, FALSE, "none", Foo, <<>>),
      app_mocked_factory |-> F(TRUE, FALSE, "none", Foo,
                               << P("dep", Object, "will_cause_exc") >>),
      override_err_fn |-> F(FALSE, TRUE, "none", Foo,
                            << P("dep", Foo, "orig_app_factory") >>),
      \* an asynchronous producer whose coroutine raises, a context manager
      \* whose __enter__ raises, and a producer whose second dependency raises
      failing_async |-> F(FALSE, TRUE, "none", Foo, <<>>),
      failing_cm |-> F(FALSE, FALSE, "none", T(<<"cm">>, "Foo"), <<>>),
      needs_failing |-> F(FALSE, FALSE, "none", Foo,
                          << P("ok", Foo, "sync_foo"), P("bad", Foo, "failing_factory") >>),
      \* a factory and a callable that raise when they are called, and a
      \* callable whose second parameter is on the raising factory
      failing_factory |-> F(FALSE, FALSE, "none", Foo, <<>>),
      failing_fn |-> F(FALSE, TRUE, "none", T(<<>>, "None"),
                       << P("handler_dep", Foo, "handler_dep_factory1") >>),
      partial_fn |-> F(FALSE, TRUE, "none", T(<<>>, "None"),
                       << P("handler_dep", Foo, "handler_dep_factory1"),
                          P("bad", Foo, "failing_factory") >>),
      \* tests/test_implicit_factories.py: scoped("app")(sync_foo), create_bar
      \* and fn(foo: Depends[Foo]); a callable with a default on the same
      \* name, and one whose by-name parameter follows a resolved sibling
      sync_foo_ |-> F(TRUE, FALSE, "none", Foo, <<>>),
      create_bar |-> F(FALSE, FALSE, "none", Bar, <<>>),
      \* an implicit factory of a resource of the wrong class
      cm_bar |-> F(FALSE, FALSE, "none", T(<<"cm">>, "Bar"), <<>>),
      byname_fn |-> F(FALSE, TRUE, "none", T(<<>>, "None"), << P("foo", Foo, "") >>),
      explicit_fn |-> F(FALSE, TRUE, "none", T(<<>>, "None"),
                        << P("foo", Foo, "async_foo") >>),
      after_fn |-> F(FALSE, TRUE, "none", T(<<>>, "None"),
                     << P("first", Foo, "async_foo"), P("missing", Foo, "") >>),
      \* tests/test_implicit_factories.py: scoped("app")(async_foo), and a
      \* callable on an asynchronous producer and an asynchronous resource
      async_foo_ |-> F(TRUE, TRUE, "none", Foo, <<>>),
      concurrent_fn |-> F(FALSE, TRUE, "none", T(<<>>, "tuple"),
                          << P("async_foo", Foo, "async_foo"),
                             P("async_cm_foo", Foo, "async_cm_foo") >>),
      \* callables that break the rules of _validate_invokable:
      \*   async def invalid_fn(a, *args: Depends[Foo],
      \*                        ok: Depends[Foo] = Depends(sync_foo), n: int,
      \*                        d: Depends[Foo] = 5,
      \*                        b: Depends = Depends(sync_foo)) -> None
      \*   async def no_return_fn(foo: Depends[Foo] = Depends(sync_foo))
      \*   def invalid_factory(x: int) -> Foo
      \*   async def generic_fn(foo: Depends[Foo] = Depends(sync_foo),
      \*                        x: list[Foo] = Depends(sync_foo)) -> None
      \* and callables that reach invalid_factory one and two levels down
      invalid_fn |-> F(FALSE, TRUE, "none", T(<<>>, "None"),
                       << [P("a", NoType, "") EXCEPT !.annotation = "None"],
                          [P("args", Foo, "") EXCEPT !.kind = "VAR_POSITIONAL"],
                          P("ok", Foo, "sync_foo"),
                          [P("n", T(<<>>, "int"), "") EXCEPT !.annotation = "int"],
                          [P("d", Foo, "") EXCEPT !.bad_default = TRUE],
                          [P("b", NoType, "sync_foo") EXCEPT !.annotation = "Depends"] >>),
      no_return_fn |-> [F(FALSE, TRUE, "none", T(<<>>, "None"),
                          << P("foo", Foo, "sync_foo") >>)
                            EXCEPT !.return_annotation = FALSE],
      invalid_factory |-> F(FALSE, FALSE, "none", Foo,
                            << [P("x", T(<<>>, "int"), "") EXCEPT !.annotation = "int"] >>),
      generic_fn |-> F(FALSE, TRUE, "none", T(<<>>, "None"),
                       << P("foo", Foo, "sync_foo"),
                          [P("x", Foo, "sync_foo") EXCEPT !.annotation = "list[T]"] >>),
      nested_invalid_fn |-> F(FALSE, TRUE, "none", T(<<>>, "None"),
                              << P("foo", Foo, "sync_foo"),
                                 P("bad", Foo, "invalid_factory") >>),
      deep |-> F(FALSE, FALSE, "none", Foo, << P("bad", Foo, "invalid_factory") >>),
      deep_fn |-> F(FALSE, TRUE, "none", T(<<>>, "None"), << P("d", Foo, "deep") >>) ]

FactoryNames == DOMAIN Factories

\* the callables whose body raises
Raising ==
    {"failing_factory", "failing_fn", "will_cause_exc", "orig_app_factory",
     "app_mocked_factory"}

\* the callables whose awaiting or entering raises
RaisingInAction == {"failing_async", "failing_cm"}

(***************************************************************************)
(* _scope.py                                                               *)
(***************************************************************************)
\* mutation: the marker is not read, every factory counts as app scoped
get_factory_scope_app(factory) == "app"

get_factory_scope(factory) ==
    IF Factories[factory].app_scope THEN "app" ELSE "handler"

(***************************************************************************)
(* _utils.py: nesting levels.  LeadRun(k, wr) is the number of leading     *)
(* wrappers k of wr: the loops of the *_count_nesting_levels functions     *)
(* unwrap one kind of wrapper and stop at the first type of another kind.  *)
(***************************************************************************)
RECURSIVE LeadRun(_, _)
LeadRun(k, wr) ==
    IF wr # <<>> /\ Head(wr) = k THEN 1 + LeadRun(k, Tail(wr)) ELSE 0

cm_count_nesting_levels(t) == LeadRun("cm", t.wr)

async_cm_count_nesting_levels(t) == LeadRun("acm", t.wr)

awaitable_count_nesting_levels(t) == LeadRun("aw", t.wr)

\* _cm_factory_count_nesting_levels: a generator return type is seen through
\* only for the matching decorator; an Iterator[...] left as it is has no
\* nesting of any kind
cm_factory_count_nesting_levels(factory) ==
    LET f == Factories[factory]
    IN  CASE f.decorated = "cm" -> 1 + cm_count_nesting_levels(f.ret)
          [] f.decorated = "acm" -> 0
          [] OTHER -> cm_count_nesting_levels(f.ret)

async_cm_factory_count_nesting_levels(factory) ==
    LET f == Factories[factory]
    IN  CASE f.decorated = "acm" -> 1 + async_cm_count_nesting_levels(f.ret)
          [] f.decorated = "cm" -> 0
          [] OTHER -> async_cm_count_nesting_levels(f.ret)

awaitable_factory_count_nesting_levels(factory) ==
    LET f == Factories[factory]
    IN  (IF f.coro THEN 1 ELSE 0)
        + (IF f.decorated = "none" THEN awaitable_count_nesting_levels(f.ret) ELSE 0)

(***************************************************************************)
(* Values.  Every call of a factory returns a new object: a value is       *)
(* identified by the factory that made it, the scope instance (owner) the  *)
(* call was made for and the number n of that call among the calls made    *)
(* for that instance.  layers are the wrappers still around the value.     *)
(* Calling a factory yields its declared nesting:                          *)
(* a coroutine function a coroutine, a decorated generator a (async)       *)
(* context manager.                                                        *)
(***************************************************************************)
Val(fn, n, layers, cls, owner) ==
    [fn |-> fn, n |-> n, layers |-> layers, cls |-> cls, owner |-> owner]

NoVal == Val("-", 0, <<>>, "-", 0)

ReturnedLayers(factory) ==
    LET f == Factories[factory]
    IN  (IF f.coro THEN <<"aw">> ELSE <<>>)
        \o (IF f.decorated # "none" THEN <<f.decorated>> ELSE <<>>)
        \o f.ret.wr

\* isinstance(val, Awaitable), isinstance(val, ContextManager), ...
IsInstanceOfWrapper(val, k) == val.layers # <<>> /\ Head(val.layers) = k

\* await val, or what __enter__ / __aenter__ of val returns
Unwrapped(val) == [val EXCEPT !.layers = Tail(val.layers)]

\* type(val): the class of a plain value, else the outermost wrapper
TypeOf(val) == IF val.layers = <<>> THEN val.cls ELSE Head(val.layers)

\* a check that a value is plain, whatever its class
IsInstance_plain(val, cls) == cls = "object" \/ val.layers = <<>>

\* isinstance(val, expect_type) for a runtime checkable class
IsInstance(val, cls) == cls = "object" \/ (val.layers = <<>> /\ val.cls = cls)

(***************************************************************************)
(* _exceptions.py.  An error is its root cause and the chain of            *)
(* InvokeError wrappers put around it, innermost first.                    *)
(***************************************************************************)
\* Depends(factory) or a parameter name
D(explicit, id) == [explicit |-> explicit, id |-> id]

Err(kind, dep_type, dep_or_name, creation_type, requested_as, factory, cycle) ==
    [kind |-> kind, dep_type |-> dep_type, dep_or_name |-> dep_or_name,
     creation_type |-> creation_type, requested_as |-> requested_as,
     factory |-> factory, cycle |-> cycle, chain |-> <<>>,
     val_type |-> "-", actual_type |-> "-", args_errs |-> <<>>]

NoErr == Err("-", NoType, D(FALSE, "-"), "-", NoType, "-", <<>>)

CreationErrorKinds ==
    {"DependencyByNameNotFound", "ValueOfUnexpectedTypeReceived",
     "HandlerScopeDepRequestedFromAppScope", "ValueFromFactoryAlreadyResolved",
     "ValueFromFactoryWereRequestedUnresolved"}

CreationError(kind, dep_type, dep_or_name, creation_type) ==
    Err(kind, dep_type, dep_or_name, creation_type, NoType, "-", <<>>)

ValueOfUnexpectedTypeReceived(dep_type, dep_or_name, creation_type, val_type, actual_type) ==
    [CreationError("ValueOfUnexpectedTypeReceived", dep_type, dep_or_name, creation_type)
         EXCEPT !.val_type = val_type, !.actual_type = actual_type]

InvalidInvokableFunction(invokable, args_errs) ==
    [Err("InvalidInvokableFunction", NoType, D(FALSE, "-"), "-", NoType, invokable, <<>>)
         EXCEPT !.args_errs = args_errs]

\* fn_overridden is an optional argument that no call of validate_invokable
\* or resolve_fn_deps in the package passes
InvokeError(kind, invokable, err) ==
    [err EXCEPT !.chain = Append(@, [kind |-> kind, invokable |-> invokable,
                                     fn_overridden |-> ""])]

\* InvokeError.__init__: what reaches Exception.__init__, and so the args of
\* the error.  The conditional expression takes the whole sum as its first
\* branch: without fn_overridden the positional arguments are dropped
InvokeErrorArgs(invokable, args, fn_overridden) ==
    <<invokable>> \o (IF fn_overridden # "" THEN args \o <<fn_overridden>> ELSE <<>>)

\* invoke_err of a NestedInvokeError, dep_err of an InvokableDependencyError
WrappedError(err) == [err EXCEPT !.chain = SubSeq(@, 1, Len(@) - 1)]

\* the args of an InvokableDependencyError or NestedInvokeError
ErrorArgs(err) ==
    InvokeErrorArgs(err.chain[Len(err.chain)].invokable, <<WrappedError(err)>>,
                    err.chain[Len(err.chain)].fn_overridden)

\* results of a call: a value with the action-performed flag, or an error
Ok(val, action_performed) ==
    [ok |-> TRUE, val |-> val, action_performed |-> action_performed, err |-> NoErr]

Raise(err) == [ok |-> FALSE, val |-> NoVal, action_performed |-> FALSE, err |-> err]

(***************************************************************************)
(* _create.py: shape decisions.  A decision is the boolean returned or     *)
(* the TypeError raised.                                                   *)
(***************************************************************************)
decide_need_action(n) ==
    IF n # 0 /\ n # 1
    THEN [raised |-> TRUE, need |-> FALSE]
    ELSE [raised |-> FALSE, need |-> (n = 1)]

dep_need_await(fn, dep_type) ==
    decide_need_action(awaitable_factory_count_nesting_levels(fn)
                       - awaitable_count_nesting_levels(dep_type))

dep_need_enter(fn, dep_type) ==
    decide_need_action(cm_factory_count_nesting_levels(fn)
                       - cm_count_nesting_levels(dep_type))

dep_need_aenter(fn, dep_type) ==
    decide_need_action(async_cm_factory_count_nesting_levels(fn)
                       - async_cm_count_nesting_levels(dep_type))

\* the tuple (enter, aenter, await); building it raises when one of them does
dep_need_action(fn, dep_type) ==
    LET t == <<dep_need_enter(fn, dep_type), dep_need_aenter(fn, dep_type),
               dep_need_await(fn, dep_type)>>
    IN  [raised |-> \E i \in 1..3 : t[i].raised,
         need |-> \E i \in 1..3 : t[i].need]

\* the exception a callable's body raises, or the body of a guarded block
\* (fn "-")
BodyError(fn) == Err("Exception", NoType, D(FALSE, "-"), "-", NoType, fn, <<>>)

InconsistentType(fn, dep_type) ==
    Err("TypeError", dep_type, D(FALSE, "-"), "-", NoType, fn, <<>>)

\* mutation: the two errors are taken for each other
render_cache_error_swapped(dep_type, dep_or_name, fn, requested_as, need_action, explicit) ==
    Err(IF need_action THEN "ValueFromFactoryAlreadyResolved"
                       ELSE "ValueFromFactoryWereRequestedUnresolved",
        dep_type, dep_or_name, IF explicit THEN "explicit" ELSE "implicit",
        requested_as, fn, <<>>)

render_cache_already_have_value_in_other_form_error(dep_type, dep_or_name, fn, requested_as, need_action, explicit) ==
    LET c_type == IF explicit THEN "explicit" ELSE "implicit"
    IN  Err(IF need_action THEN "ValueFromFactoryWereRequestedUnresolved"
                           ELSE "ValueFromFactoryAlreadyResolved",
            dep_type, dep_or_name, c_type, requested_as, fn, <<>>)

(***************************************************************************)
(* _contexts.py: the scope chain.  The root is 0; app and handler          *)
(* instances are the elements of ctxs, in the order of their construction. *)
(***************************************************************************)
RootCtx == 0

\* _BaseNonRootContext.__init__
NewContext(kind, prev_ctx, implicit_factories) ==
    [kind |-> kind, prev_ctx |-> prev_ctx, implicit_factories |-> implicit_factories,
     entered |-> FALSE, cache |-> <<>>, exit_stack |-> <<>>, dropped |-> FALSE]

\* mutation: the context itself is taken for its app context
get_app_ctx_self(ctxs, ctx) == ctx

get_app_ctx(ctxs, ctx) ==
    IF ctxs[ctx].kind = "app" THEN ctx ELSE ctxs[ctx].prev_ctx

\* a lookup that asks the App instance first
lookup_implicit_factory_app_first(ctxs, ctx, name) ==
    IF name \in DOMAIN ctxs[get_app_ctx(ctxs, ctx)].implicit_factories
    THEN ctxs[get_app_ctx(ctxs, ctx)].implicit_factories[name]
    ELSE IF name \in DOMAIN ctxs[ctx].implicit_factories
    THEN ctxs[ctx].implicit_factories[name]
    ELSE ""

RECURSIVE lookup_implicit_factory(_, _, _)
lookup_implicit_factory(ctxs, ctx, name) ==
    IF name \in DOMAIN ctxs[ctx].implicit_factories
    THEN ctxs[ctx].implicit_factories[name]
    ELSE IF ctxs[ctx].kind = "handler"
         THEN lookup_implicit_factory(ctxs, ctxs[ctx].prev_ctx, name)
         ELSE ""

\* cache[fn] = (val, dep_type, action_performed)
CacheEntry(val, requested_as, action_performed) ==
    [val |-> val, requested_as |-> requested_as, action_performed |-> action_performed]

CacheStore(cache, fn, entry) == (fn :> entry) @@ cache

\* mutation: the exit callback is not pushed
ExitStackPush_none(exit_stack, val) == exit_stack

\* AsyncExitStack: enter_context / enter_async_context push the exit callback
ExitStackPush(exit_stack, val) == Append(exit_stack, val)

(***************************************************************************)
(* The state a call works on.  ctxs are the scope instances, hist what an  *)
(* observer (the mocks of the tests) has seen per scope instance,          *)
(* creation_ctx the CreationContext of the running top-level call, events  *)
(* the mock calls of the running call in order, args the arguments         *)
(* resolved last, ret the result of the innermost finished call.           *)
(***************************************************************************)
NewHist ==
    [calls |-> <<>>, acquired |-> <<>>, released |-> <<>>, results |-> <<>>,
     guards |-> 0, failed |-> FALSE]

\* CreationContext()
NewCreationContext == [prev |-> "", factories_in_stack |-> <<>>]

Event(op, fn, val, args) == [op |-> op, fn |-> fn, val |-> val, args |-> args]

Range(seq) == {seq[i] : i \in DOMAIN seq}

Count(seq, x) == Cardinality({i \in DOMAIN seq : seq[i] = x})

\* mutation: the whole stack is reported
CycledFactories_stack(factories_in_stack, fn) == factories_in_stack

\* the factories from the repeated one on, in the order they were entered
CycledFactories(factories_in_stack, fn) ==
    LET at == CHOOSE i \in DOMAIN factories_in_stack : factories_in_stack[i] = fn
    IN  <<fn>> \o SubSeq(factories_in_stack, at + 1, Len(factories_in_stack))

\* mutation: every factory uses the app cache
OwnerCtx_app(ctxs, ctx, fn) == get_app_ctx(ctxs, ctx)

\* mutation: the Request instances of one App instance share the cache of
\* the first of them
OwnerCtx_sibling(ctxs, ctx, fn) ==
    CASE get_factory_scope(fn) = "app" -> get_app_ctx(ctxs, ctx)
      [] get_factory_scope(fn) = "handler" /\ ctxs[ctx].kind = "handler" ->
             CHOOSE h \in DOMAIN ctxs :
                 /\ ctxs[h].kind = "handler"
                 /\ ctxs[h].prev_ctx = ctxs[ctx].prev_ctx
                 /\ \A h2 \in DOMAIN ctxs :
                        (ctxs[h2].kind = "handler" /\ ctxs[h2].prev_ctx = ctxs[ctx].prev_ctx)
                            => h <= h2
      [] OTHER -> RootCtx

\* mutation: every value is cached in the context the call was made with
OwnerCtx_ctx(ctxs, ctx, fn) ==
    CASE get_factory_scope(fn) = "handler" /\ ctxs[ctx].kind # "handler" -> RootCtx
      [] OTHER -> ctx

\* the scope instance whose cache a factory uses: get_app_cache(ctx) or
\* get_handler_cache(ctx); 0 when a handler scoped factory is asked for with
\* an app context
OwnerCtx(ctxs, ctx, fn) ==
    CASE get_factory_scope(fn) = "app" -> get_app_ctx(ctxs, ctx)
      [] get_factory_scope(fn) = "handler" /\ ctxs[ctx].kind = "handler" -> ctx
      [] OTHER -> RootCtx

\* mutation: every resource is entered on the exit stack of the context the
\* call was made with
ExitStackOwner_ctx(ctxs, ctx, fn) == ctx

\* the scope instance on whose exit stack a factory's resource is entered:
\* get_app_exit_stack(ctx) or get_handler_exit_stack(ctx); 0 when a handler
\* scoped factory is asked for with an app context
ExitStackOwner(ctxs, ctx, fn) ==
    CASE get_factory_scope(fn) = "app" -> get_app_ctx(ctxs, ctx)
      [] get_factory_scope(fn) = "handler" /\ ctxs[ctx].kind = "handler" -> ctx
      [] OTHER -> RootCtx

\* the prev_factory test of create_from_factory
RequestedFromAppFactory(prev_factory, fn) ==
    /\ prev_factory # ""
    /\ get_factory_scope(fn) = "handler"
    /\ get_factory_scope(prev_factory) = "app"

\* the object a call of fn returns, made for the scope instance owner (the
\* one whose exit stack create_from_factory has taken)
NewValue(m, fn, owner) ==
    Val(fn, Count(m.hist[owner].calls, fn) + 1, ReturnedLayers(fn),
        Factories[fn].ret.cls, owner)

\* val = fn(**fn_args), as the mocks record it
Called(m, fn, owner, val) ==
    [m EXCEPT !.hist[owner].calls = Append(@, fn),
              !.events = Append(@, Event("call", fn, val, m.args))]

\* val = await val
Awaited(m, fn, val) ==
    [m EXCEPT !.events = Append(@, Event("await", fn, val, <<>>)),
              !.ret = Ok(Unwrapped(val), TRUE)]

\* val = exit_stack.enter_context(val), val = await exit_stack.enter_async_context(val)
EnteredContext(m, fn, owner, val) ==
    [m EXCEPT !.ctxs[owner].exit_stack = ExitStackPush(@, val),
              !.hist[owner].acquired = Append(@, val),
              !.events = Append(@, Event("enter", fn, val, <<>>)),
              !.ret = Ok(Unwrapped(val), TRUE)]

Returned(m, ret) == [m EXCEPT !.ret = ret]

\* fn(**fn_args) raises: the call is seen, no value is made
Raised(m, fn) ==
    [m EXCEPT !.events = Append(@, Event("call", fn, NoVal, m.args)),
              !.ret = Raise(BodyError(fn))]

\* the isinstance / need-action chain that follows the call: `isinstance(val,
\* X) and _dep_need_x(...)` evaluates _dep_need_x only for a value that is an X
PerformAction(m, dep_type, fn, owner, val) ==
    IF IsInstanceOfWrapper(val, "aw") /\ dep_need_await(fn, dep_type).raised
    THEN Returned(m, Raise(InconsistentType(fn, dep_type)))
    ELSE IF IsInstanceOfWrapper(val, "aw") /\ dep_need_await(fn, dep_type).need
    THEN Awaited(m, fn, val)
    ELSE IF IsInstanceOfWrapper(val, "cm") /\ dep_need_enter(fn, dep_type).raised
    THEN Returned(m, Raise(InconsistentType(fn, dep_type)))
    ELSE IF IsInstanceOfWrapper(val, "cm") /\ dep_need_enter(fn, dep_type).need
    THEN EnteredContext(m, fn, owner, val)
    ELSE IF IsInstanceOfWrapper(val, "acm") /\ dep_need_aenter(fn, dep_type).raised
    THEN Returned(m, Raise(InconsistentType(fn, dep_type)))
    ELSE IF IsInstanceOfWrapper(val, "acm") /\ dep_need_aenter(fn, dep_type).need
    THEN EnteredContext(m, fn, owner, val)
    ELSE Returned(m, Ok(val, FALSE))

\* `await val`, `val.__enter__()` or `await val.__aenter__()` raises: after is
\* the machine had the action gone through.  The call and the raise are seen,
\* no value is made and nothing is pushed on the exit stack
ActionOutcome(m, after, fn, val) ==
    IF fn \in RaisingInAction /\ after.ret.ok /\ after.ret.action_performed
    THEN [m EXCEPT !.events = Append(Append(@, Event("call", fn, NoVal, m.args)),
                                     Event("raise", fn, val, <<>>)),
                   !.ret = Raise(BodyError(fn))]
    ELSE after

\* fn(**fn_args) and what follows it, once the arguments are resolved; an
\* error of resolve_fn_deps passes through
CallFactory(m, dep_type, fn, owner) ==
    IF ~m.ret.ok
    THEN m
    ELSE IF fn \in Raising
    THEN Raised(m, fn)
    ELSE ActionOutcome(m,
                       PerformAction(Called(m, fn, owner, NewValue(m, fn, owner)),
                                     dep_type, fn, owner, NewValue(m, fn, owner)),
                       fn, NewValue(m, fn, owner))

(***************************************************************************)
(* _invoke.py: the validation of a callable.                               *)
(***************************************************************************)
\* `_depends.is_dep(arg_type) is None`: is_dep returns a bool
is_dep_is_None(annotation) == FALSE

\* get_args(arg_type) == ()
get_args_is_empty(annotation) == annotation \notin {"Depends[T]", "list[T]"}

\* arg_errs of _validate_invokable for one parameter
arg_errs(param) ==
    (IF param.annotation = "None" THEN <<"annotation is required">> ELSE <<>>)
    \o (IF param.kind \notin {"POSITIONAL_OR_KEYWORD", "KEYWORD_ONLY"}
        THEN <<"invalid parameter type">> ELSE <<>>)
    \o (IF is_dep_is_None(param.annotation)
        THEN <<"only Depends[T] annotations are supported">> ELSE <<>>)
    \o (IF get_args_is_empty(param.annotation)
        THEN <<"bare Depends are not supported">> ELSE <<>>)
    \o (IF param.bad_default
        THEN <<"dependency arg should not have default value at all">> ELSE <<>>)

\* the parameter of fn called name
ParamNamed(fn, name) ==
    Factories[fn].params[CHOOSE i \in DOMAIN Factories[fn].params :
                             Factories[fn].params[i].name = name]

\* _validate_invokable: dict(errs), with "" for the return annotation; the
\* empty mapping stands for None
validation_exc(fn) ==
    [name \in {Factories[fn].params[i].name :
                   i \in {j \in DOMAIN Factories[fn].params :
                              arg_errs(Factories[fn].params[j]) # <<>>}}
               \cup (IF Factories[fn].return_annotation THEN {} ELSE {""}) |->
         IF name = ""
         THEN <<"do not have annotation for it return value">>
         ELSE arg_errs(ParamNamed(fn, name))]

\* validate_invokable
validate_invokable(m, fn) ==
    IF DOMAIN validation_exc(fn) # {}
    THEN Returned(m, Raise(InvalidInvokableFunction(fn, validation_exc(fn))))
    ELSE m

\* fn passes the validation
ValidCallable(fn) == DOMAIN validation_exc(fn) = {}

\* mutation: the parameters are taken last to first
ParamAt_reversed(fn, i) ==
    Factories[fn].params[Len(Factories[fn].params) + 1 - i]

\* the i-th item of sig.parameters.items(): the parameters in declaration order
ParamAt(fn, i) == Factories[fn].params[i]

\* creation_context.prev = fn; creation_context.factories_in_stack.append(fn)
EnterCreationContext(m, fn) ==
    [m EXCEPT !.creation_ctx.prev = fn,
              !.creation_ctx.factories_in_stack = Append(@, fn)]

\* mutation: no finally block, the tracker keeps what the construction put in
RestoreCreationContext_none(m, prev_factory, fn) == m

\* the finally block of create_from_factory
RestoreCreationContext(m, prev_factory, fn) ==
    [m EXCEPT !.creation_ctx.prev = prev_factory,
              !.creation_ctx.factories_in_stack = SelectSeq(@, LAMBDA f : f # fn)]

\* what resolve_fn_deps raises for an error of one of its create calls
WrapDependencyError(fn, err) ==
    IF err.chain = <<>> /\ err.kind \in CreationErrorKinds
    THEN InvokeError("InvokableDependencyError", fn, err)
    ELSE IF err.chain # <<>> \/ err.kind = "InvalidInvokableFunction"
    THEN InvokeError("NestedInvokeError", fn, err)
    ELSE err

\* a lookup that gives None for a name without a bootstrap value
create_from_bootstrap_values_get(m, dep_type, name) ==
    IF name \notin DOMAIN m.root.bootstrap_values
    THEN Returned(m, Ok(NoVal, FALSE))
    ELSE IF ~IsInstance(m.root.bootstrap_values[name], dep_type.cls)
    THEN Returned(m, Raise(ValueOfUnexpectedTypeReceived(
                               dep_type, D(FALSE, name), "bootstrap", dep_type.cls,
                               TypeOf(m.root.bootstrap_values[name]))))
    ELSE Returned(m, Ok(m.root.bootstrap_values[name], FALSE))

\* mutation: the caller gets a copy of the stored value
create_from_bootstrap_values_copy(m, dep_type, name) ==
    IF name \notin DOMAIN m.root.bootstrap_values
    THEN Returned(m, Raise(CreationError("DependencyByNameNotFound", dep_type,
                                         D(FALSE, name), "implicit-or-bootstrap")))
    ELSE IF ~IsInstance(m.root.bootstrap_values[name], dep_type.cls)
    THEN Returned(m, Raise(ValueOfUnexpectedTypeReceived(
                               dep_type, D(FALSE, name), "bootstrap", dep_type.cls,
                               TypeOf(m.root.bootstrap_values[name]))))
    ELSE Returned(m, Ok([m.root.bootstrap_values[name] EXCEPT !.n = @ + 1], FALSE))

\* create_from_bootstrap_values
create_from_bootstrap_values(m, dep_type, name) ==
    IF name \notin DOMAIN m.root.bootstrap_values
    THEN Returned(m, Raise(CreationError("DependencyByNameNotFound", dep_type,
                                         D(FALSE, name), "implicit-or-bootstrap")))
    ELSE IF ~IsInstance(m.root.bootstrap_values[name], dep_type.cls)
    THEN Returned(m, Raise(ValueOfUnexpectedTypeReceived(
                               dep_type, D(FALSE, name), "bootstrap", dep_type.cls,
                               TypeOf(m.root.bootstrap_values[name]))))
    ELSE Returned(m, Ok(m.root.bootstrap_values[name], FALSE))

\* the isinstance check on the value of an implicit factory
CheckImplicitValue(m, dep_type, name) ==
    IF m.ret.ok /\ ~IsInstance(m.ret.val, dep_type.cls)
    THEN Returned(m, Raise(ValueOfUnexpectedTypeReceived(
                               dep_type, D(FALSE, name), "implicit", dep_type.cls,
                               TypeOf(m.ret.val))))
    ELSE m

\* create_from_factory_cached, `if fn in cache`
CacheHit(m, owner, dep_type, dep_or_name, fn, explicit) ==
    LET entry == m.ctxs[owner].cache[fn]
    IN  IF dep_need_action(fn, dep_type).raised
        THEN Returned(m, Raise(InconsistentType(fn, dep_type)))
        ELSE IF dep_need_action(fn, dep_type).need = entry.action_performed
        THEN Returned(m, Ok(entry.val, entry.action_performed))
        ELSE Returned(m, Raise(render_cache_already_have_value_in_other_form_error(
                                   dep_type, dep_or_name, fn, entry.requested_as,
                                   dep_need_action(fn, dep_type).need, explicit)))

\* mutation: the outcome is stored whatever it is
CacheMiss_always(m, owner, dep_type, fn) ==
    [m EXCEPT !.ctxs[owner].cache =
                  CacheStore(@, fn, CacheEntry(m.ret.val, dep_type, m.ret.action_performed))]

\* mutation: the value is returned and not stored
CacheMiss_nostore(m, owner, dep_type, fn) == m

\* mutation: a value is stored when it is of the requested class
CacheMiss_typed(m, owner, dep_type, fn) ==
    IF ~m.ret.ok \/ ~IsInstance(m.ret.val, dep_type.cls)
    THEN m
    ELSE [m EXCEPT !.ctxs[owner].cache =
                       CacheStore(@, fn, CacheEntry(m.ret.val, dep_type,
                                                    m.ret.action_performed))]

\* create_from_factory_cached, after create_from_factory: an error passes
\* through, a value is stored with the requested form and the flag
CacheMiss(m, owner, dep_type, fn) ==
    IF ~m.ret.ok
    THEN m
    ELSE [m EXCEPT !.ctxs[owner].cache =
                       CacheStore(@, fn, CacheEntry(m.ret.val, dep_type,
                                                    m.ret.action_performed))]

RECURSIVE create(_, _, _, _)
RECURSIVE create_from_implicit_factory_cached(_, _, _, _, _)
RECURSIVE create_from_factory_cached(_, _, _, _, _, _)
RECURSIVE create_from_factory(_, _, _, _, _, _)
RECURSIVE resolve_fn_deps(_, _, _)
RECURSIVE ResolveParams(_, _, _, _, _)
RECURSIVE NextParam(_, _, _, _, _)

create(m, ctx, dep_type, dep_or_name) ==
    IF dep_or_name.explicit
    THEN create_from_factory_cached(m, ctx, dep_type, dep_or_name, dep_or_name.id, TRUE)
    ELSE IF dep_type.wr # <<>>
    THEN \* get_runtime_checkable_type: not a simple type
         Returned(m, Raise(InconsistentType("-", dep_type)))
    ELSE IF lookup_implicit_factory(m.ctxs, ctx, dep_or_name.id) # ""
    THEN create_from_implicit_factory_cached(m, ctx, dep_type, dep_or_name.id,
             lookup_implicit_factory(m.ctxs, ctx, dep_or_name.id))
    ELSE create_from_bootstrap_values(m, dep_type, dep_or_name.id)

create_from_implicit_factory_cached(m, ctx, dep_type, name, fn) ==
    CheckImplicitValue(
        create_from_factory_cached(m, ctx, dep_type, D(FALSE, name), fn, FALSE),
        dep_type, name)

create_from_factory_cached(m, ctx, dep_type, dep_or_name, fn, explicit) ==
    LET owner == OwnerCtx(m.ctxs, ctx, fn)
    IN  IF owner = RootCtx
        THEN Returned(m, Raise(CreationError("HandlerScopeDepRequestedFromAppScope",
                 dep_type, dep_or_name, IF explicit THEN "explicit" ELSE "implicit")))
        ELSE IF fn \in DOMAIN m.ctxs[owner].cache
        THEN CacheHit(m, owner, dep_type, dep_or_name, fn, explicit)
        ELSE CacheMiss(create_from_factory(m, ctx, dep_type, dep_or_name, fn, explicit),
                       owner, dep_type, fn)

create_from_factory(m, ctx, dep_type, dep_or_name, fn, explicit) ==
    LET owner == ExitStackOwner(m.ctxs, ctx, fn)
        prev_factory == m.creation_ctx.prev
        hsd == CreationError("HandlerScopeDepRequestedFromAppScope", dep_type,
                             dep_or_name, IF explicit THEN "explicit" ELSE "implicit")
    IN  IF fn \in Range(m.creation_ctx.factories_in_stack)
        THEN Returned(m, Raise(Err("RuntimeError", dep_type, D(FALSE, "-"), "-", NoType,
                 fn, CycledFactories(m.creation_ctx.factories_in_stack, fn))))
        ELSE IF owner = RootCtx
        THEN Returned(m, Raise(hsd))
        ELSE IF RequestedFromAppFactory(prev_factory, fn)
        THEN Returned(m, Raise(hsd))
        ELSE RestoreCreationContext(
                 CallFactory(resolve_fn_deps(EnterCreationContext(m, fn), ctx, fn),
                             dep_type, fn, owner),
                 prev_factory, fn)

\* the loop of resolve_fn_deps from parameter i on; args are the values
\* resolved so far
ResolveParams(m, ctx, fn, i, args) ==
    IF i > Len(Factories[fn].params)
    THEN [m EXCEPT !.args = args, !.ret = Ok(NoVal, FALSE)]
    ELSE LET param == ParamAt(fn, i)
         IN  NextParam(create(m, ctx, param.type,
                              IF param.default = "" THEN D(FALSE, param.name)
                                                    ELSE D(TRUE, param.default)),
                       ctx, fn, i, args)

\* the body of the loop after create: its error is wrapped and raised, its
\* value becomes the argument and the loop goes on
NextParam(m, ctx, fn, i, args) ==
    IF ~m.ret.ok
    THEN Returned(m, Raise(WrapDependencyError(fn, m.ret.err)))
    ELSE ResolveParams(m, ctx, fn, i + 1, Append(args, m.ret.val))

resolve_fn_deps(m, ctx, fn) ==
    IF validate_invokable(m, fn).ret.ok
    THEN ResolveParams(m, ctx, fn, 1, <<>>)
    ELSE validate_invokable(m, fn)

\* `return fn(**fn_args)` of invoke.  The target is no factory: its result is
\* not counted among the factory calls and carries no call number.
CallInvokable(m, ctx, fn) ==
    IF ~m.ret.ok
    THEN m
    ELSE IF fn \in Raising
    THEN Raised(m, fn)
    ELSE [m EXCEPT !.events = Append(@, Event("call", fn,
                                  Val(fn, 0, <<>>, Factories[fn].ret.cls, ctx), m.args)),
                   !.ret = Ok(Val(fn, 0, <<>>, Factories[fn].ret.cls, ctx), FALSE)]

\* invoke: resolve the target's parameters with a new CreationContext, then
\* call the target
invoke(m, ctx, fn) ==
    CallInvokable(resolve_fn_deps([m EXCEPT !.creation_ctx = NewCreationContext], ctx, fn),
                  ctx, fn)

(***************************************************************************)
(* The program and its caller.                                             *)
(*   scn           the fixture in use: which callables the caller asks for *)
(*   root          the RootContext                                         *)
(*   ctxs          the AppContext / HandlerContext instances               *)
(*   hist          per instance, what the mocks recorded: factory calls    *)
(*                 made for it, resources acquired and released on it, and *)
(*                 per factory the first value a create on it returned     *)
(*   creation_ctx  the CreationContext of the last top-level call, as the  *)
(*                 call left it                                            *)
(*   last          the last API call: its request, result and mock calls   *)
(*   tasks         the calls the caller runs concurrently on one event     *)
(*                 loop, each with the point it is suspended at            *)
(*   resolving     one top-level create followed statement by statement:   *)
(*                 the frames of create_from_factory that are open, the    *)
(*                 cache, and where the call stands                        *)
(***************************************************************************)
VARIABLES scn, root, ctxs, hist, creation_ctx, last, tasks, resolving

vars == <<scn, root, ctxs, hist, creation_ctx, last, tasks, resolving>>

ShapeFactories ==
    {"sync_foo", "cm_foo", "async_foo", "async_cm_foo", "gen_cm", "gen_acm", "async_make_cm"}

Scenarios ==
    ShapeFactories
    \cup {"transitive", "lifespans", "scoping", "ambiguous", "cycle", "override",
          "failing", "byname", "invalid", "routes", "override_err"}

\* the requested forms: the plain value and each single wrapper around it
Forms(cls) == {T(<<>>, cls), T(<<"cm">>, cls), T(<<"acm">>, cls), T(<<"aw">>, cls)}

Request(op, dep_type, dep_or_name) ==
    [op |-> op, dep_type |-> dep_type, dep_or_name |-> dep_or_name]

Creates(dep_types, fns) ==
    {Request("create", t, D(TRUE, fn)) : t \in dep_types, fn \in fns}

Invokes(fns) == {Request("invoke", NoType, D(TRUE, fn)) : fn \in fns}

\* what the caller may ask for in a fixture
Requests(s) ==
    CASE s \in ShapeFactories ->
             Creates(Forms(Factories[s].ret.cls), {s})
             \cup {Request("create", T(<<>>, Factories[s].ret.cls), D(FALSE, "smth"))}
      [] s = "transitive" ->
             Creates({Object}, {"create_smth", "smth_transitive"})
      [] s = "lifespans" ->
             Invokes({"lifespan_fn", "lifespan_fn_v2", "app_to_handler_fn"})
             \cup Creates({Foo}, {"handler_no_app_dep_factory", "handler_dep_factory1"})
      [] s = "scoping" ->
             Invokes({"scoping_fn", "scoping_fn_rev", "handler_fn", "implicit_fn"})
             \cup Creates({T(<<>>, "int")}, {"handler_dep"})
             \cup Creates({T(<<>>, "str")}, {"app_dep"})
      [] s = "ambiguous" ->
             Invokes({"forms_fn", "forms_fn_v2", "forms_dep"})
             \cup Creates({Foo, T(<<"cm">>, "Foo")}, {"cm_foo"})
      [] s = "cycle" ->
             Invokes({"cycle_fn"})
             \cup Creates({Foo}, {"cycle_f", "cycle_g", "cycle_h", "sync_foo"})
      [] s = "failing" ->
             Invokes({"partial_fn", "failing_fn", "lifespan_fn"})
             \cup Creates({Foo}, {"failing_factory", "failing_async", "failing_cm",
                                  "needs_failing"})
      [] s = "override" ->
             Invokes({"override_fn", "override_implicit_fn"})
             \cup Creates({Foo}, {"orig_factory", "mocked_factory"})
             \cup {Request("create", Foo, D(FALSE, "dep"))}
      [] s = "invalid" ->
             Invokes({"invalid_fn", "no_return_fn", "generic_fn", "nested_invalid_fn",
                      "deep_fn"})
             \cup Creates({Foo}, {"invalid_factory"})
      [] s = "concurrent" ->
             Invokes({"concurrent_fn"})
             \cup Creates({Foo}, {"sync_foo", "async_foo", "async_foo_", "async_cm_foo"})
      [] s = "override_err" ->
             Invokes({"override_err_fn"})
             \cup Creates({Foo}, {"orig_app_factory", "app_mocked_factory"})
      [] s = "routes" ->
             Invokes({"routes_fn"})
             \cup Creates({Foo}, {"sync_foo", "parent2"})
             \cup {Request("create", Foo, D(FALSE, "smth"))}
      [] s = "byname" ->
             Invokes({"byname_fn", "explicit_fn", "after_fn"})
             \cup {Request("create", Foo, D(FALSE, "foo"))}

\* the implicit_factories the caller may pass to enter_next_scope
ImplicitFactories(s, kind) ==
    CASE s \in ShapeFactories /\ kind = "handler" -> {<<>>, "smth" :> s}
      [] s = "scoping" -> {<<>>, "smth" :> "sync_foo"}
      [] s = "routes" /\ kind = "handler" -> {"smth" :> "sync_foo"}
      [] s = "transitive" /\ kind = "handler" -> {<<>>, "dep" :> "create_smth"}
      [] s = "override" /\ kind = "handler" -> {<<>>, "dep" :> "orig_factory"}
      [] s = "byname" /\ kind = "app" -> {<<>>, "foo" :> "sync_foo_"}
      [] s = "byname" /\ kind = "handler" ->
             {<<>>, "foo" :> "sync_foo", "foo" :> "create_bar", "foo" :> "cm_bar"}
      [] OTHER -> {<<>>}

NoRequest == Request("-", NoType, D(FALSE, "-"))

\* left and hist are set by a scope exit: the instance as the guard left it
\* and what was recorded for it
Last(op, ctx, request, ret, events) ==
    [op |-> op, ctx |-> ctx, request |-> request, ret |-> ret, events |-> events,
     left |-> NewContext("-", RootCtx, <<>>), hist |-> NewHist]

\* RootContext(override_factories, **bootstrap_values)
RootContext(override_factories, bootstrap_values) ==
    [override_factories |-> override_factories, bootstrap_values |-> bootstrap_values]

\* a value passed to RootContext by keyword, as Foo("b1")
BootstrapValue(cls) == Val("", 1, <<>>, cls, RootCtx)

\* the roots the caller constructs in a fixture
Roots(s) ==
    CASE s = "override" ->
             {RootContext(("orig_factory" :> "mocked_factory")
                          @@ ("mocked_factory" :> "other_factory"), <<>>)}
      [] s = "override_err" ->
             {RootContext("orig_app_factory" :> "app_mocked_factory", <<>>)}
      [] s = "byname" ->
             {RootContext(<<>>, bootstrap_values) :
                  bootstrap_values \in {<<>>, "foo" :> BootstrapValue("Foo"),
                                              "foo" :> BootstrapValue("Bar")}}
      [] OTHER -> {RootContext(<<>>, <<>>)}

\* no call is followed statement by statement
NotResolving ==
    [params |-> <<>>, target |-> "-", frames |-> <<>>, cache |-> {}, pc |-> "idle",
     depth |-> 0]

Init ==
    /\ scn \in Scenarios
    /\ root \in Roots(scn)
    /\ ctxs = <<>>
    /\ hist = <<>>
    /\ creation_ctx = NewCreationContext
    /\ last = Last("init", RootCtx, NoRequest, Ok(NoVal, FALSE), <<>>)
    /\ tasks = <<>>
    /\ resolving = NotResolving

\* the state a top-level call starts from: the mocks reset, a CreationContext()
Machine ==
    [root |-> root, ctxs |-> ctxs, hist |-> hist, creation_ctx |-> NewCreationContext,
     events |-> <<>>, args |-> <<>>, ret |-> Ok(NoVal, FALSE)]

Instances(kind) == {c \in DOMAIN ctxs : ctxs[c].kind = kind}

Entered(kind) == {c \in Instances(kind) : ctxs[c].entered}

\* the callers of the fixtures enter one scope of a kind after the other, as
\* the tests do; the caller of "transitive" also enters a scope while
\* another of its kind is entered (tests/test_invoke.py
\* test_handler_deps_lives_as_outer_lifespan)
Overlapping(s) == s = "transitive"

MayEnter(kind) == Overlapping(scn) \/ Entered(kind) = {}

\* mutation: the implicit factories are not looked at
HasAppScopedFactory_never(implicit_factories) == FALSE

\* HandlerContext.__init__ refuses app scoped implicit factories
HasAppScopedFactory(implicit_factories) ==
    \E name \in DOMAIN implicit_factories :
        get_factory_scope(implicit_factories[name]) = "app"

\* _BaseNonRootContext._enter: the new instance, entered
EnteredInstance(kind, prev_ctx, implicit_factories) ==
    [NewContext(kind, prev_ctx, implicit_factories) EXCEPT !.entered = TRUE]

\* mutation: from a handler context a new HandlerContext of the same app is
\* entered
enter_next_scope_new(m, ctx, implicit_factories) ==
    IF ctx = RootCtx
    THEN [m EXCEPT !.ctxs = Append(@, EnteredInstance("app", RootCtx, implicit_factories)),
                   !.hist = Append(@, NewHist)]
    ELSE [m EXCEPT !.ctxs = Append(@, EnteredInstance("handler",
                                IF m.ctxs[ctx].kind = "app" THEN ctx
                                                            ELSE m.ctxs[ctx].prev_ctx,
                                implicit_factories)),
                   !.hist = Append(@, NewHist)]

\* `async with enter_next_scope(ctx, implicit_factories=...)`: from the root
\* a new AppContext, from an app context a new HandlerContext, from a
\* handler context nullcontext(ctx)
enter_next_scope(m, ctx, implicit_factories) ==
    IF ctx = RootCtx
    THEN [m EXCEPT !.ctxs = Append(@, EnteredInstance("app", RootCtx, implicit_factories)),
                   !.hist = Append(@, NewHist)]
    ELSE IF m.ctxs[ctx].kind = "app"
    THEN IF HasAppScopedFactory(implicit_factories)
         THEN Returned(m, Raise(Err("ValueError", NoType, D(FALSE, "-"), "-", NoType,
                                    "-", <<>>)))
         ELSE [m EXCEPT !.ctxs = Append(@, EnteredInstance("handler", ctx,
                                                           implicit_factories)),
                        !.hist = Append(@, NewHist)]
    ELSE m

\* what an enter leaves: the instances and what was recorded for them
Enter(m, ctx) ==
    /\ ctxs' = m.ctxs
    /\ hist' = m.hist
    /\ last' = Last("enter", IF m.ret.ok THEN Len(m.ctxs) ELSE ctx, NoRequest, m.ret,
                    m.events)
    /\ UNCHANGED <<scn, root, creation_ctx, tasks, resolving>>

\* the caller enters an app scope from the root
EnterApp(implicit_factories) ==
    /\ Cardinality(Instances("app")) < MaxApps
    /\ MayEnter("app")
    /\ Enter(enter_next_scope(Machine, RootCtx, implicit_factories), RootCtx)

\* the caller enters a handler scope inside the guarded block of app_ctx
EnterHandler(app_ctx, implicit_factories) ==
    /\ ctxs[app_ctx].kind = "app"
    /\ ctxs[app_ctx].entered
    /\ Cardinality(Instances("handler")) < MaxHandlers
    /\ MayEnter("handler")
    /\ Enter(enter_next_scope(Machine, app_ctx, implicit_factories), app_ctx)

\* the callers that use enter_next_scope on a handler context
Nesting(s) == s \in {"cm_foo", "lifespans", "scoping"}

\* the caller enters the next scope from the entered handler context h: what
\* the guard yields is h, or the instance made for it
EnterNested(h, implicit_factories) ==
    /\ Nesting(scn)
    /\ ctxs[h].kind = "handler"
    /\ ctxs[h].entered
    /\ hist[h].guards < MaxNested
    /\ LET m == enter_next_scope(Machine, h, implicit_factories)
       IN  /\ ctxs' = m.ctxs
           /\ hist' = [m.hist EXCEPT ![h].guards = @ + 1]
           /\ last' = Last("enter_nested", IF Len(m.ctxs) = Len(ctxs) THEN h ELSE Len(m.ctxs),
                           NoRequest, m.ret, m.events)
    /\ UNCHANGED <<scn, root, creation_ctx, tasks, resolving>>

\* contextlib.nullcontext(ctx).__aexit__
nullcontext_exit(m, ctx) == m

\* the caller leaves the guard that enter_next_scope gave for the handler
\* context h
ExitNested(h) ==
    /\ hist[h].guards > 0
    /\ LET m == nullcontext_exit(Machine, h)
       IN  /\ ctxs' = m.ctxs
           /\ hist' = [m.hist EXCEPT ![h].guards = @ - 1]
           /\ last' = Last("exit_nested", h, NoRequest, m.ret, m.events)
    /\ UNCHANGED <<scn, root, creation_ctx, tasks, resolving>>

Reverse(seq) == [i \in 1..Len(seq) |-> seq[Len(seq) + 1 - i]]

\* AsyncExitStack.__aexit__: the exit callbacks, last pushed first
Unwind(exit_stack) == Reverse(exit_stack)

\* mutation: the exit callbacks run only when the block ended normally
aexit_on_success(exit_stack, ret) == IF ret.ok THEN Unwind(exit_stack) ELSE <<>>

\* AsyncExitStack.__aexit__(*exc_details): the exit callbacks that run, with
\* or without an exception in flight
aexit(exit_stack, ret) == Unwind(exit_stack)

\* what is left of an instance once its guard has been left: the caller's
\* `async with ... as ctx` block is over and the instance, with its cache,
\* is dropped
Dropped(c) == [NewContext(c.kind, c.prev_ctx, <<>>) EXCEPT !.dropped = TRUE]

\* leaving the guard of ctx: its exit stack unwinds, then _entered is reset.
\* The guarded blocks are nested, so an app guard is left after the guards
\* of the handler contexts entered inside it.
LeaveGuard(ctx, ret) ==
    /\ ctxs[ctx].entered
    /\ hist[ctx].guards = 0
    /\ \A h \in DOMAIN ctxs : ctxs[h].prev_ctx = ctx => ~ctxs[h].entered
    /\ LET exits == aexit(ctxs[ctx].exit_stack, ret)
           left == [ctxs[ctx] EXCEPT !.exit_stack = <<>>, !.entered = FALSE]
       IN  /\ ctxs' = [ctxs EXCEPT ![ctx] = Dropped(left)]
           /\ hist' = [hist EXCEPT ![ctx] = NewHist]
           /\ last' = [Last("exit", ctx, NoRequest, ret,
                            [i \in DOMAIN exits |-> Event("exit", exits[i].fn, exits[i], <<>>)])
                         EXCEPT !.left = left,
                                !.hist = [hist[ctx] EXCEPT !.released = @ \o exits]]
    /\ UNCHANGED <<scn, root, creation_ctx, tasks, resolving>>

\* the guarded block of ctx ends and its guard is left
ExitScope(ctx) == LeaveGuard(ctx, Ok(NoVal, FALSE))

\* the callers whose guarded blocks may raise
BodyFails(s) == s \in {"failing", "lifespans"}

\* the guarded block of ctx raises and its guard is left with the exception
ExitScopeFailed(ctx) ==
    /\ BodyFails(scn)
    /\ LeaveGuard(ctx, Raise(BodyError("-")))

\* the scope instance a factory's values live in when asked for on ctx
ScopeOf(ctx, fn) ==
    IF Factories[fn].app_scope /\ ctxs[ctx].kind = "handler" THEN ctxs[ctx].prev_ctx ELSE ctx

\* the first value a top-level call returned for the requested factory in
\* the lifetime of the factory's scope instance, with its request
NoteResult(h, ctx, request, fn, ret) ==
    IF ret.ok /\ request.op = "create" /\ fn # "" /\ fn \notin DOMAIN h[ScopeOf(ctx, fn)].results
    THEN [h EXCEPT ![ScopeOf(ctx, fn)].results =
                       (fn :> [val |-> ret.val, request |-> request, ctx |-> ctx]) @@ @]
    ELSE h

\* the factory a request resolves to: the explicit one, or the implicit one
\* registered under the name ("" when there is none)
RequestedFactory(ctx, request) ==
    IF request.dep_or_name.explicit
    THEN request.dep_or_name.id
    ELSE lookup_implicit_factory(ctxs, ctx, request.dep_or_name.id)

\* a top-level call made with ctx has raised, as a caller whose guarded
\* blocks may raise sees it
NoteFailure(h, ctx, ret) ==
    IF ret.ok \/ ~BodyFails(scn) THEN h ELSE [h EXCEPT ![ctx].failed = TRUE]

Finish(m, op, ctx, request) ==
    /\ ctxs' = m.ctxs
    /\ hist' = NoteFailure(NoteResult(m.hist, ctx, request,
                                      RequestedFactory(ctx, request), m.ret),
                           ctx, m.ret)
    /\ creation_ctx' = m.creation_ctx
    /\ last' = Last(op, ctx, request, m.ret, m.events)
    /\ UNCHANGED <<scn, root, tasks, resolving>>

\* `await create(ctx, dep_type, dep_or_name)` inside the guarded block of ctx
DoCreate(ctx, request) ==
    /\ ctxs[ctx].entered
    /\ request.op = "create"
    /\ Finish(create(Machine, ctx, request.dep_type, request.dep_or_name),
              "create", ctx, request)

\* `await invoke(ctx, fn)` inside the guarded block of ctx
DoInvoke(ctx, request) ==
    /\ ctxs[ctx].entered
    /\ request.op = "invoke"
    /\ Finish(invoke(Machine, ctx, request.dep_or_name.id), "invoke", ctx, request)

Next ==
    \/ \E f \in ImplicitFactories(scn, "app") : EnterApp(f)
    \/ \E a \in DOMAIN ctxs, f \in ImplicitFactories(scn, "handler") : EnterHandler(a, f)
    \/ \E h \in DOMAIN ctxs, f \in ImplicitFactories(scn, "handler") : EnterNested(h, f)
    \/ \E h \in DOMAIN ctxs : ExitNested(h)
    \/ \E c \in DOMAIN ctxs : ExitScope(c)
    \/ \E c \in DOMAIN ctxs : ExitScopeFailed(c)
    \/ \E c \in DOMAIN ctxs, r \in Requests(scn) : DoCreate(c, r)
    \/ \E c \in DOMAIN ctxs, r \in Requests(scn) : DoInvoke(c, r)

Spec == Init /\ [][Next]_vars

(***************************************************************************)
(* A caller that keeps the instances it was given and goes on using them   *)
(* after their guards have been left: an instance is not dropped when its  *)
(* guard exits, create and invoke are called with instances entered or     *)
(* not, and _enter is called again on an instance.                         *)
(***************************************************************************)
OutsideScenarios == {"cm_foo", "lifespans"}

InitOutside ==
    /\ Init
    /\ scn \in OutsideScenarios

\* check_context_entered: the RuntimeError for a context that is not entered.
\* No function of the package calls it.
check_context_entered(m, ctx) ==
    IF m.ctxs[ctx].entered
    THEN m
    ELSE Returned(m, Raise(Err("RuntimeError", NoType, D(FALSE, "-"), "-", NoType, "-",
                               <<>>)))

\* _BaseContext._enter up to the yield: an entered instance is refused,
\* another one is marked entered; _exited is not read
BaseContext_enter(m, ctx) ==
    IF m.ctxs[ctx].entered
    THEN Returned(m, Raise(Err("RuntimeError", NoType, D(FALSE, "-"), "-", NoType, "-",
                               <<>>)))
    ELSE [m EXCEPT !.ctxs[ctx].entered = TRUE]

\* `async with ctx._enter()` on an instance the caller holds
Reenter(ctx) ==
    /\ LET m == BaseContext_enter(Machine, ctx)
       IN  /\ ctxs' = m.ctxs
           /\ last' = Last("reenter", ctx, NoRequest, m.ret, m.events)
    /\ UNCHANGED <<scn, root, hist, creation_ctx, tasks, resolving>>

\* _BaseContext._enter after the yield, around the exit stack of
\* _BaseNonRootContext._enter: the exit stack unwinds and _entered is reset;
\* the cache is left as it is and _exited is not set
Left(c) == [c EXCEPT !.exit_stack = <<>>, !.entered = FALSE]

\* leaving the guard of ctx, the caller keeping the instance
LeaveScope(ctx) ==
    /\ ctxs[ctx].entered
    /\ hist[ctx].guards = 0
    /\ \A h \in DOMAIN ctxs : ctxs[h].prev_ctx = ctx => ~ctxs[h].entered
    /\ ctxs' = [ctxs EXCEPT ![ctx] = Left(@)]
    /\ hist' = [hist EXCEPT ![ctx].released = @ \o Unwind(ctxs[ctx].exit_stack)]
    /\ last' = [Last("exit", ctx, NoRequest, Ok(NoVal, FALSE),
                     [i \in DOMAIN ctxs[ctx].exit_stack |->
                         Event("exit", Unwind(ctxs[ctx].exit_stack)[i].fn,
                               Unwind(ctxs[ctx].exit_stack)[i], <<>>)])
                  EXCEPT !.left = Left(ctxs[ctx]),
                         !.hist = [hist[ctx] EXCEPT
                                      !.released = @ \o Unwind(ctxs[ctx].exit_stack)]]
    /\ UNCHANGED <<scn, root, creation_ctx, tasks, resolving>>

\* `await create(ctx, dep_type, dep_or_name)` with an instance the caller
\* holds, entered or not
CreateOn(ctx, request) ==
    /\ request.op = "create"
    /\ Finish(create(Machine, ctx, request.dep_type, request.dep_or_name),
              "create", ctx, request)

\* `await invoke(ctx, fn)` with an instance the caller holds, entered or not
InvokeOn(ctx, request) ==
    /\ request.op = "invoke"
    /\ Finish(invoke(Machine, ctx, request.dep_or_name.id), "invoke", ctx, request)

NextOutside ==
    \/ \E f \in ImplicitFactories(scn, "app") :
           Cardinality(Instances("app")) < MaxKept /\ EnterApp(f)
    \/ \E a \in DOMAIN ctxs, f \in ImplicitFactories(scn, "handler") :
           Cardinality(Instances("handler")) < MaxKept /\ EnterHandler(a, f)
    \/ \E c \in DOMAIN ctxs : LeaveScope(c)
    \/ \E c \in DOMAIN ctxs : Reenter(c)
    \/ \E c \in DOMAIN ctxs, r \in Requests(scn) : CreateOn(c, r)
    \/ \E c \in DOMAIN ctxs, r \in Requests(scn) : InvokeOn(c, r)

SpecOutside == InitOutside /\ [][NextOutside]_vars

(***************************************************************************)
(* The caller that runs calls concurrently: asyncio.gather of creates and  *)
(* invokes on the instances it has entered.  A task runs until it is done  *)
(* or until it gives the event loop the chance to run another task: at     *)
(* `await val` of a producer's coroutine and inside                        *)
(* `await exit_stack.enter_async_context(val)` (create_from_factory).  The *)
(* producers of the fixture have no parameters, so a task is suspended in  *)
(* one create at a time.                                                   *)
(***************************************************************************)
ConcurrentScenarios == {"concurrent"}

InitConcurrent ==
    /\ scn \in ConcurrentScenarios
    /\ root \in Roots(scn)
    /\ ctxs = <<>>
    /\ hist = <<>>
    /\ creation_ctx = NewCreationContext
    /\ last = Last("init", RootCtx, NoRequest, Ok(NoVal, FALSE), <<>>)
    /\ tasks = <<>>
    /\ resolving = NotResolving

\* a call of the caller that has not started to run
Task(ctx, request) ==
    [ctx |-> ctx, request |-> request, pc |-> "ready", i |-> 1, args |-> <<>>,
     events |-> <<>>, val |-> NoVal, ret |-> Ok(NoVal, FALSE)]

\* what a task resolves, in order: the dependency of a create, the parameters
\* of the target of an invoke
TaskItems(request) ==
    IF request.op = "create"
    THEN << P("-", request.dep_type, request.dep_or_name.id) >>
    ELSE Factories[request.dep_or_name.id].params

\* the state a task runs on when the event loop resumes it
TaskMachine(task) == [Machine EXCEPT !.events = task.events]

\* the await that the isinstance / need-action chain of create_from_factory
\* reaches for the value a producer returned: "await" for `await val`,
\* "aenter" for `await exit_stack.enter_async_context(val)`, "" for none
AwaitsIn(val, fn, dep_type) ==
    IF IsInstanceOfWrapper(val, "aw") /\ dep_need_await(fn, dep_type).raised
    THEN ""
    ELSE IF IsInstanceOfWrapper(val, "aw") /\ dep_need_await(fn, dep_type).need
    THEN "await"
    ELSE IF IsInstanceOfWrapper(val, "cm")
    THEN ""
    ELSE IF IsInstanceOfWrapper(val, "acm") /\ dep_need_aenter(fn, dep_type).raised
    THEN ""
    ELSE IF IsInstanceOfWrapper(val, "acm") /\ dep_need_aenter(fn, dep_type).need
    THEN "aenter"
    ELSE ""

\* where a create of fn on ctx suspends: nowhere when it raises before the
\* call or finds fn in the cache
SuspendsAt(m, ctx, fn, dep_type) ==
    IF \/ OwnerCtx(m.ctxs, ctx, fn) = RootCtx
       \/ fn \in DOMAIN m.ctxs[OwnerCtx(m.ctxs, ctx, fn)].cache
       \/ fn \in Raising
    THEN ""
    ELSE AwaitsIn(NewValue(m, fn, OwnerCtx(m.ctxs, ctx, fn)), fn, dep_type)

\* the task is over with ret
Finished(m, task, ret) ==
    [m |-> m, task |-> [task EXCEPT !.pc = "done", !.ret = ret, !.events = m.events]]

\* the task has called its producer and is suspended on what it returned
Suspended(m, task, at, val) ==
    [m |-> m, task |-> [task EXCEPT !.pc = at, !.val = val, !.events = m.events]]

RECURSIVE RunTask(_, _)
RECURSIVE AfterCreate(_, _)

\* the task goes on after the create of its i-th item, which gave m: the loop
\* of resolve_fn_deps, or the return of a top-level create
AfterCreate(m, task) ==
    IF ~m.ret.ok
    THEN Finished(m, task,
                  IF task.request.op = "invoke"
                  THEN Raise(WrapDependencyError(task.request.dep_or_name.id, m.ret.err))
                  ELSE m.ret)
    ELSE RunTask(m, [task EXCEPT !.i = @ + 1, !.args = Append(@, m.ret.val),
                                 !.ret = m.ret])

\* the task runs from its i-th item to its next suspension or to its end
RunTask(m, task) ==
    IF task.i > Len(TaskItems(task.request))
    THEN IF task.request.op = "invoke"
         THEN Finished(CallInvokable([m EXCEPT !.args = task.args], task.ctx,
                                     task.request.dep_or_name.id),
                       task,
                       CallInvokable([m EXCEPT !.args = task.args], task.ctx,
                                     task.request.dep_or_name.id).ret)
         ELSE Finished(m, task, task.ret)
    ELSE IF SuspendsAt(m, task.ctx, TaskItems(task.request)[task.i].default,
                       TaskItems(task.request)[task.i].type) # ""
    THEN Suspended(Called([m EXCEPT !.args = <<>>],
                          TaskItems(task.request)[task.i].default,
                          OwnerCtx(m.ctxs, task.ctx, TaskItems(task.request)[task.i].default),
                          NewValue(m, TaskItems(task.request)[task.i].default,
                                   OwnerCtx(m.ctxs, task.ctx,
                                            TaskItems(task.request)[task.i].default))),
                   task,
                   SuspendsAt(m, task.ctx, TaskItems(task.request)[task.i].default,
                              TaskItems(task.request)[task.i].type),
                   NewValue(m, TaskItems(task.request)[task.i].default,
                            OwnerCtx(m.ctxs, task.ctx,
                                     TaskItems(task.request)[task.i].default)))
    ELSE AfterCreate(create(m, task.ctx, TaskItems(task.request)[task.i].type,
                            D(TRUE, TaskItems(task.request)[task.i].default)),
                     task)

\* the await of a suspended task completes: create_from_factory returns the
\* value with action_performed and create_from_factory_cached stores it,
\* `cache[fn] = (val_, dep_type, action_performed)`
Resumed(m, task, fn, dep_type) ==
    CacheMiss(IF task.pc = "await"
              THEN Awaited(m, fn, task.val)
              ELSE EnteredContext(m, fn, ExitStackOwner(m.ctxs, task.ctx, fn), task.val),
              OwnerCtx(m.ctxs, task.ctx, fn), dep_type, fn)

\* what a run of task t leaves
Ran(t, r) ==
    /\ ctxs' = r.m.ctxs
    /\ hist' = r.m.hist
    /\ tasks' = [tasks EXCEPT ![t] = r.task]
    /\ last' = IF r.task.pc = "done"
               THEN Last(r.task.request.op, r.task.ctx, r.task.request, r.task.ret,
                         r.task.events)
               ELSE last
    /\ UNCHANGED <<scn, root, creation_ctx, resolving>>

\* asyncio.gather(..., create(ctx, ...) or invoke(ctx, ...), ...)
StartTask(ctx, request) ==
    /\ Len(tasks) < MaxTasks
    /\ ctxs[ctx].entered
    /\ tasks' = Append(tasks, Task(ctx, request))
    /\ UNCHANGED <<scn, root, ctxs, hist, creation_ctx, last, resolving>>

\* the event loop runs a task that has not run yet
RunReady(t) ==
    /\ tasks[t].pc = "ready"
    /\ Ran(t, RunTask(TaskMachine(tasks[t]), tasks[t]))

\* the event loop resumes a suspended task
Resume(t) ==
    /\ tasks[t].pc \in {"await", "aenter"}
    /\ Ran(t, AfterCreate(Resumed(TaskMachine(tasks[t]), tasks[t],
                                  TaskItems(tasks[t].request)[tasks[t].i].default,
                                  TaskItems(tasks[t].request)[tasks[t].i].type),
                          tasks[t]))

NextConcurrent ==
    \/ \E f \in ImplicitFactories(scn, "app") :
           Cardinality(Instances("app")) < MaxKept /\ EnterApp(f)
    \/ \E a \in DOMAIN ctxs, f \in ImplicitFactories(scn, "handler") :
           Cardinality(Instances("handler")) < MaxKept /\ EnterHandler(a, f)
    \/ \E c \in DOMAIN ctxs, r \in Requests(scn) : StartTask(c, r)
    \/ \E t \in DOMAIN tasks : RunReady(t)
    \/ \E t \in DOMAIN tasks : Resume(t)

SpecConcurrent == InitConcurrent /\ [][NextConcurrent]_vars

(***************************************************************************)
(* One top-level call followed statement by statement, over every set of   *)
(* producers and every choice of dependency edges between them, cycles     *)
(* included.  create_from_factory_cached, create_from_factory and          *)
(* resolve_fn_deps call each other recursively; a frame is one open        *)
(* resolve_fn_deps with the parameter it stands at.  The shapes, scopes    *)
(* and values of the producers are left out: a statement that can raise    *)
(* because of them either raises or does not.                              *)
(***************************************************************************)
MaxProducers == 3

\* more than a call can open: one frame for each producer and one for the
\* callable of an invoke
MaxFrames == 5

Producers == {"p1", "p2", "p3"}

\* the callable of a top-level invoke, which is not a producer
Invokable == "fn"

\* the Depends defaults of a signature, in the order of the parameters
Signatures ==
    {<<>>, <<"p1">>, <<"p2">>, <<"p3">>, <<"p1", "p2">>, <<"p1", "p3">>,
     <<"p2", "p3">>, <<"p1", "p2", "p3">>}

\* create(ctx, Depends[T], producer) or invoke(ctx, fn) about to start
Resolving(params, target) ==
    [params |-> params, target |-> target, frames |-> <<>>, cache |-> {},
     pc |-> "start", depth |-> 0]

InitResolve ==
    /\ scn = "transitive"
    /\ root = RootContext(<<>>, <<>>)
    /\ ctxs = <<>>
    /\ hist = <<>>
    /\ creation_ctx = NewCreationContext
    /\ last = Last("init", RootCtx, NoRequest, Ok(NoVal, FALSE), <<>>)
    /\ tasks = <<>>
    /\ \E params \in [Producers \cup {Invokable} -> Signatures],
          target \in Producers \cup {Invokable} :
           /\ target \in Producers => params[Invokable] = <<>>
           /\ resolving = Resolving(params, target)

\* creation_ctx.factories_in_stack: the producers whose frames are open
factories_in_stack(frames) ==
    SelectSeq([i \in DOMAIN frames |-> frames[i].fn], LAMBDA f : f \in Producers)

InStack_prev(frames, fn) == frames # <<>> /\ frames[Len(frames)].fn = fn

\* fn in creation_ctx.factories_in_stack
InStack(frames, fn) == \E i \in DOMAIN factories_in_stack(frames) :
                           factories_in_stack(frames)[i] = fn

Top == resolving.frames[Len(resolving.frames)]

\* the frame on top stands at a parameter; Param is its default
AtParam ==
    /\ resolving.pc = "running"
    /\ Top.i <= Len(resolving.params[Top.fn])

Param == resolving.params[Top.fn][Top.i]

Pushed(fn) == Append(resolving.frames, [fn |-> fn, i |-> 1])

Popped == SubSeq(resolving.frames, 1, Len(resolving.frames) - 1)

\* the frame below the top one goes on to its next parameter
Advanced(frames) ==
    IF frames = <<>> THEN frames
    ELSE [frames EXCEPT ![Len(frames)].i = @ + 1]

Deepest(frames) ==
    IF Len(factories_in_stack(frames)) > resolving.depth
    THEN Len(factories_in_stack(frames)) ELSE resolving.depth

\* create: nothing is cached, create_from_factory opens the frame of the
\* producer; invoke: resolve_fn_deps(ctx, fn, CreationContext())
StartResolving ==
    /\ resolving.pc = "start"
    /\ resolving' = [resolving EXCEPT !.frames = Pushed(resolving.target),
                                      !.depth = Deepest(Pushed(resolving.target)),
                                      !.pc = "running"]
    /\ UNCHANGED <<scn, root, ctxs, hist, creation_ctx, last, tasks>>

\* create_from_factory_cached finds the producer in the cache
FoundInCache ==
    /\ AtParam
    /\ Param \in resolving.cache
    /\ resolving' = [resolving EXCEPT !.frames = Advanced(resolving.frames)]
    /\ UNCHANGED <<scn, root, ctxs, hist, creation_ctx, last, tasks>>

\* create_from_factory finds the producer among the open frames
RecursionDetected ==
    /\ AtParam
    /\ Param \notin resolving.cache
    /\ InStack(resolving.frames, Param)
    /\ resolving' = [resolving EXCEPT !.pc = "raising"]
    /\ UNCHANGED <<scn, root, ctxs, hist, creation_ctx, last, tasks>>

\* create_from_factory opens the frame of the producer and resolves its
\* dependencies
EnterFactory ==
    /\ AtParam
    /\ Param \notin resolving.cache
    /\ ~InStack(resolving.frames, Param)
    /\ Len(resolving.frames) < MaxFrames
    /\ resolving' = [resolving EXCEPT !.frames = Pushed(Param),
                                      !.depth = Deepest(Pushed(Param))]
    /\ UNCHANGED <<scn, root, ctxs, hist, creation_ctx, last, tasks>>

\* all parameters are resolved: the producer is called and returns, its frame
\* is closed and create_from_factory_cached stores the value
CallReturns ==
    /\ resolving.pc = "running"
    /\ Top.i > Len(resolving.params[Top.fn])
    /\ resolving' = [resolving EXCEPT
                         !.frames = Advanced(Popped),
                         !.cache = IF Top.fn \in Producers THEN @ \cup {Top.fn} ELSE @,
                         !.pc = IF Popped = <<>> THEN "returned" ELSE "running"]
    /\ UNCHANGED <<scn, root, ctxs, hist, creation_ctx, last, tasks>>

\* the statement at hand raises: a scope check, a cached value in another
\* form, the body of the producer, the await or the acquisition
StatementRaises ==
    /\ resolving.pc = "running"
    /\ resolving' = [resolving EXCEPT !.pc = "raising"]
    /\ UNCHANGED <<scn, root, ctxs, hist, creation_ctx, last, tasks>>

\* the error leaves a frame: the finally of create_from_factory
LeaveFrame ==
    /\ resolving.pc = "raising"
    /\ resolving' = [resolving EXCEPT
                         !.frames = Popped,
                         !.pc = IF Popped = <<>> THEN "raised" ELSE "raising"]
    /\ UNCHANGED <<scn, root, ctxs, hist, creation_ctx, last, tasks>>

NextResolve ==
    \/ StartResolving
    \/ FoundInCache
    \/ RecursionDetected
    \/ EnterFactory
    \/ CallReturns
    \/ StatementRaises
    \/ LeaveFrame

\* the event loop runs the one coroutine of the call whenever it can go on
SpecResolve == InitResolve /\ [][NextResolve]_vars /\ WF_vars(NextResolve)

(***************************************************************************)
(* Properties.  last is the API call that led to the state; the call is a  *)
(* create when last.op = "create" and LastFactory is the producer it asked *)
(* for.                                                                    *)
(***************************************************************************)
IsHandler(c) == c \in DOMAIN ctxs /\ ctxs[c].kind = "handler"

IsApp(c) == c \in DOMAIN ctxs /\ ctxs[c].kind = "app"

AppScoped == {fn \in FactoryNames : Factories[fn].app_scope}

HandlerScoped == FactoryNames \ AppScoped

LastFactory == RequestedFactory(last.ctx, last.request)

\* last was a create of a producer on a request scope
LastCreateOnHandler ==
    last.op = "create" /\ IsHandler(last.ctx) /\ LastFactory # ""

\* the first successful resolution of LastFactory in its scope instance
FirstResult == hist[ScopeOf(last.ctx, LastFactory)].results[LastFactory]

HasFirstResult == LastFactory \in DOMAIN hist[ScopeOf(last.ctx, LastFactory)].results

\* C1: a producer whose first resolution in a request scope succeeded is
\* resolved again, in the same requested form and the same request scope, to
\* the identical value, and has been invoked exactly once.
C1_IdempotentCaching ==
    (/\ LastCreateOnHandler
     /\ HasFirstResult
     /\ FirstResult.ctx = last.ctx
     /\ FirstResult.request = last.request)
    => /\ last.ret.ok
       /\ last.ret.val = FirstResult.val
       /\ Count(hist[ScopeOf(last.ctx, LastFactory)].calls, LastFactory) = 1

\* the app instance a context belongs to
AppOf(c) == IF ctxs[c].kind = "app" THEN c ELSE ctxs[c].prev_ctx

\* last was a successful create of producer fn
LastCreated(fn) == last.op = "create" /\ last.ret.ok /\ LastFactory = fn

\* C2: an App-scoped producer is invoked at most once per app lifetime and
\* never for a request instance; every successful resolution of it, from
\* whichever request of the app lifetime, returns the value of the one
\* invocation made in that app lifetime, so a second request gets the first
\* request's value and a second app lifetime never gets the first one's.
C2_AppScopedOncePerAppLifetime ==
    /\ \A c \in DOMAIN ctxs, fn \in AppScoped :
           /\ Count(hist[c].calls, fn) <= 1
           /\ IsHandler(c) => Count(hist[c].calls, fn) = 0
    /\ \A fn \in AppScoped :
           LastCreated(fn) =>
               /\ Count(hist[AppOf(last.ctx)].calls, fn) = 1
               /\ last.ret.val = hist[AppOf(last.ctx)].results[fn].val
               /\ last.ret.val.fn = fn
               /\ last.ret.val.owner = AppOf(last.ctx)

\* two requests of one app lifetime got the same value of an App-scoped
\* producer while another app lifetime holds a value of its own
C2_Witness ==
    \E fn \in AppScoped, other \in DOMAIN ctxs :
        /\ LastCreated(fn)
        /\ IsHandler(last.ctx)
        /\ IsHandler(hist[AppOf(last.ctx)].results[fn].ctx)
        /\ hist[AppOf(last.ctx)].results[fn].ctx # last.ctx
        /\ IsApp(other)
        /\ other # AppOf(last.ctx)
        /\ fn \in DOMAIN hist[other].results
        /\ hist[other].results[fn].val # last.ret.val
        /\ Count(hist[other].calls, fn) = 1

\* C3: a Request-scoped producer is invoked at most once per request
\* lifetime and never for an app instance; every successful resolution of it
\* in a request returns the value of the one invocation made in that request
\* lifetime, never a value made in another request.
C3_HandlerScopedOncePerRequest ==
    /\ \A c \in DOMAIN ctxs, fn \in HandlerScoped :
           /\ Count(hist[c].calls, fn) <= 1
           /\ IsApp(c) => Count(hist[c].calls, fn) = 0
    /\ \A fn \in HandlerScoped :
           LastCreated(fn) =>
               /\ IsHandler(last.ctx)
               /\ Count(hist[last.ctx].calls, fn) = 1
               /\ last.ret.val = hist[last.ctx].results[fn].val
               /\ last.ret.val.fn = fn
               /\ last.ret.val.owner = last.ctx

\* the second of two request scopes entered one after the other from the
\* same app context has invoked the producer for itself
C3_Witness ==
    \E fn \in HandlerScoped, first \in DOMAIN ctxs :
        /\ LastCreated(fn)
        /\ IsHandler(first)
        /\ ctxs[first].dropped
        /\ first < last.ctx
        /\ ctxs[first].prev_ctx = ctxs[last.ctx].prev_ctx
        /\ last.ret.val.owner = last.ctx
        /\ hist[last.ctx].calls = <<fn>>

\* the factories that made the values of a sequence, in its order
FactoriesOf(seq) == [i \in DOMAIN seq |-> seq[i].fn]

\* a factory whose call returns a context manager of either kind
MakesResource(fn) ==
    \E i \in DOMAIN ReturnedLayers(fn) : ReturnedLayers(fn)[i] \in {"cm", "acm"}

\* the factories a callable names as defaults of its parameters
Deps(fn) ==
    {Factories[fn].params[i].default : i \in DOMAIN Factories[fn].params} \ {""}

\* C4: with a an app-scoped resource and b a request-scoped resource that
\* depends on a: while a scope is entered every resource acquired on it is
\* still held on its exit stack, a resource is held by a scope of its
\* producer's kind, once per instance, and while b is held by a request its a
\* is held by the app; leaving a guard releases exactly the resources of
\* that instance, each once: those of a request while its app is entered and
\* still holds a, those of an app when no request under it is entered.
C4_ResourceLifetimes ==
    /\ \A c \in DOMAIN ctxs :
           /\ ctxs[c].entered =>
                  /\ ctxs[c].exit_stack = hist[c].acquired
                  /\ hist[c].released = <<>>
           /\ (IsHandler(c) /\ ctxs[c].entered) => ctxs[ctxs[c].prev_ctx].entered
           /\ \A i \in DOMAIN hist[c].acquired :
                  LET v == hist[c].acquired[i]
                  IN  /\ Factories[v.fn].app_scope = IsApp(c)
                      /\ Count(FactoriesOf(hist[c].acquired), v.fn) = 1
                      /\ \A a \in Deps(v.fn) :
                             (Factories[a].app_scope /\ MakesResource(a)) =>
                                 a \in Range(FactoriesOf(ctxs[AppOf(c)].exit_stack))
    /\ last.op = "exit" =>
           /\ last.left.exit_stack = <<>>
           /\ ~last.left.entered
           /\ Range(last.hist.released) = Range(last.hist.acquired)
           /\ Len(last.hist.released) = Len(last.hist.acquired)
           /\ FactoriesOf(last.events) = FactoriesOf(last.hist.released)
           /\ \A i \in DOMAIN last.hist.released :
                  /\ last.hist.released[i].owner = last.ctx
                  /\ Factories[last.hist.released[i].fn].app_scope = (last.left.kind = "app")
           /\ \A h \in DOMAIN ctxs : ctxs[h].prev_ctx = last.ctx => ~ctxs[h].entered

\* the app guard is left after two requests under it have ended, and
\* releases the app-scoped resource the request-scoped one depended on
C4_Witness ==
    /\ last.op = "exit"
    /\ last.left.kind = "app"
    /\ FactoriesOf(last.hist.released) = <<"app_dep_factory1">>
    /\ Cardinality({h \in DOMAIN ctxs : ctxs[h].prev_ctx = last.ctx /\ ctxs[h].dropped}) = 2

RECURSIVE TransDeps(_, _)
\* the factories reachable from those of todo along parameter defaults
TransDeps(todo, seen) ==
    IF todo \subseteq seen
    THEN seen
    ELSE TransDeps(UNION {Deps(fn) : fn \in todo \ seen}, seen \cup todo)

\* a producer with everything its construction may construct
Sub(fn) == TransDeps({fn}, {})

\* C5: in the mock calls of one create or invoke, every callable is called
\* with the values of its parameters in declaration order, after every call,
\* await and acquisition made for its dependencies, and whatever is made for
\* a parameter is made before anything made only for a parameter to its
\* right; leaving a guard releases in exactly the reverse of the order of
\* acquisition.
C5_LeftToRightAndLIFO ==
    /\ last.op \in {"create", "invoke"} =>
           \A i \in DOMAIN last.events :
               LET e == last.events[i]
                   params == Factories[e.fn].params
               IN  e.op = "call" =>
                       /\ Len(e.args) = Len(params)
                       /\ \A k \in DOMAIN params :
                              /\ params[k].default # "" => e.args[k].fn = params[k].default
                              /\ \A x \in DOMAIN last.events :
                                     (/\ params[k].default # ""
                                      /\ last.events[x].fn \in Sub(params[k].default)) => x < i
                       /\ \A k, k2 \in DOMAIN params, x, y \in DOMAIN last.events :
                              (/\ k < k2
                               /\ params[k].default # ""
                               /\ params[k2].default # ""
                               /\ last.events[x].fn \in Sub(params[k].default)
                               /\ last.events[y].fn \in Sub(params[k2].default)
                               /\ \A j \in 1..(k2 - 1) :
                                      params[j].default # "" =>
                                          last.events[y].fn \notin Sub(params[j].default))
                              => x < y
    /\ last.op = "exit" =>
           /\ last.hist.released = Reverse(last.hist.acquired)
           /\ last.events = [i \in DOMAIN last.hist.released |->
                                Event("exit", last.hist.released[i].fn,
                                      last.hist.released[i], <<>>)]

\* a request guard is left that acquired the resources of two parameters,
\* left one first, and releases the right one first
C5_Witness ==
    /\ last.op = "exit"
    /\ last.left.kind = "handler"
    /\ FactoriesOf(last.hist.acquired) = <<"handler_dep_factory1", "handler_dep_factory2">>
    /\ FactoriesOf(last.hist.released) = <<"handler_dep_factory2", "handler_dep_factory1">>

\* the implicit factories a by-name parameter may resolve to on c
ImplicitOn(c) ==
    Range(ctxs[c].implicit_factories) \cup Range(ctxs[AppOf(c)].implicit_factories)

\* what a request on c may reach: the requested callable, the defaults of
\* parameters from there on and the implicit factories visible on c
Reachable(c, r) ==
    TransDeps((IF r.dep_or_name.explicit THEN {r.dep_or_name.id} ELSE {})
              \cup ImplicitOn(c), {})

\* the factories called for instance c among the mock calls, in order
CalledFor(events, c) ==
    FactoriesOf(SelectSeq(events, LAMBDA e : e.op = "call" /\ e.val.n > 0
                                                /\ e.val.owner = c))

\* an enter_next_scope that gave m calls nothing and leaves what was there
EnterCallsNothing(m) ==
    /\ m.events = <<>>
    /\ SubSeq(m.ctxs, 1, Len(ctxs)) = ctxs
    /\ SubSeq(m.hist, 1, Len(hist)) = hist
    /\ m.ret.ok =>
           /\ Len(m.ctxs) = Len(ctxs) + 1
           /\ m.ctxs[Len(m.ctxs)].cache = <<>>
           /\ m.ctxs[Len(m.ctxs)].exit_stack = <<>>
           /\ m.hist[Len(m.hist)] = NewHist

\* a create or invoke of r on c that gave m calls only what r reaches, and
\* nothing is recorded as called but by its mock calls
CallsOnlyReached(m, c, r) ==
    /\ \A i \in DOMAIN m.events : m.events[i].fn \in Reachable(c, r)
    /\ \A x \in DOMAIN ctxs : m.hist[x].calls = hist[x].calls \o CalledFor(m.events, x)

\* C6: entering an app or request scope calls no producer and touches no
\* existing instance; a create or invoke calls only producers it reaches and
\* a producer is called by nothing else; the resource of an App-scoped
\* producer first reached inside a request is held by the app instance, never
\* by the request, so leaving the request guard releases request resources
\* only and leaves the app's resources held.
C6_LazyConstruction ==
    /\ \A f \in ImplicitFactories(scn, "app") :
           EnterCallsNothing(enter_next_scope(Machine, RootCtx, f))
    /\ \A a \in DOMAIN ctxs, f \in ImplicitFactories(scn, "handler") :
           (IsApp(a) /\ ctxs[a].entered) =>
               EnterCallsNothing(enter_next_scope(Machine, a, f))
    /\ \A c \in DOMAIN ctxs, r \in Requests(scn) :
           ctxs[c].entered =>
               CallsOnlyReached(IF r.op = "create"
                                THEN create(Machine, c, r.dep_type, r.dep_or_name)
                                ELSE invoke(Machine, c, r.dep_or_name.id), c, r)
    /\ last.op = "enter" => last.events = <<>>
    /\ \A c \in DOMAIN ctxs : \A i \in DOMAIN ctxs[c].exit_stack :
           /\ Factories[ctxs[c].exit_stack[i].fn].app_scope = IsApp(c)
           /\ ctxs[c].exit_stack[i].owner = c
    /\ \A c \in DOMAIN ctxs : \A i \in DOMAIN hist[c].calls :
           Factories[hist[c].calls[i]].app_scope = IsApp(c)
    /\ (last.op = "exit" /\ last.left.kind = "handler") =>
           /\ \A i \in DOMAIN last.hist.released :
                  ~Factories[last.hist.released[i].fn].app_scope
           /\ ctxs[last.left.prev_ctx].entered
           /\ ctxs[last.left.prev_ctx].exit_stack = hist[last.left.prev_ctx].acquired

\* an App-scoped producer is called for the first time inside a request that
\* had already acquired a resource, and its resource is held by the app
C6_Witness ==
    /\ last.op = "create"
    /\ last.ret.ok
    /\ IsHandler(last.ctx)
    /\ FactoriesOf(hist[last.ctx].acquired)
           = <<"handler_no_app_dep_factory", "handler_dep_factory1">>
    /\ FactoriesOf(last.events) = <<"app_dep_factory1", "app_dep_factory1",
                                    "handler_dep_factory1", "handler_dep_factory1">>
    /\ FactoriesOf(ctxs[AppOf(last.ctx)].exit_stack) = <<"app_dep_factory1">>

DoubleFormKinds ==
    {"ValueFromFactoryAlreadyResolved", "ValueFromFactoryWereRequestedUnresolved"}

\* the cache a producer's entry is kept in for a call on c
CacheFor(c, fn) == ctxs[ScopeOf(c, fn)].cache

\* fn has an entry in its owning scope and the form dep_type asks for an
\* unwrapping other than the one recorded
CachedInOtherForm(c, fn, dep_type) ==
    /\ fn \in DOMAIN CacheFor(c, fn)
    /\ ~dep_need_action(fn, dep_type).raised
    /\ dep_need_action(fn, dep_type).need # CacheFor(c, fn)[fn].action_performed

\* fn has an entry in its owning scope and the form dep_type asks for the
\* unwrapping recorded
CachedInSameForm(c, fn, dep_type) ==
    /\ fn \in DOMAIN CacheFor(c, fn)
    /\ ~dep_need_action(fn, dep_type).raised
    /\ dep_need_action(fn, dep_type).need = CacheFor(c, fn)[fn].action_performed

\* the error of a double-form request
IsDoubleFormError(err, c, fn, dep_type, dep_or_name) ==
    LET entry == CacheFor(c, fn)[fn]
    IN  /\ err.kind = IF entry.action_performed
                      THEN "ValueFromFactoryAlreadyResolved"
                      ELSE "ValueFromFactoryWereRequestedUnresolved"
        /\ err.kind = "ValueFromFactoryWereRequestedUnresolved" =>
               entry.val.layers = ReturnedLayers(fn) /\ entry.val.layers # <<>>
        /\ err.kind = "ValueFromFactoryAlreadyResolved" =>
               Len(entry.val.layers) < Len(ReturnedLayers(fn))
        /\ err.dep_type = dep_type
        /\ err.dep_or_name = dep_or_name
        /\ err.requested_as = entry.requested_as
        /\ err.factory = fn

\* m fails with the double-form error, wrapped as chain says, calling
\* nothing and changing nothing
RejectsDoubleForm(m, c, fn, dep_type, dep_or_name, chain) ==
    /\ ~m.ret.ok
    /\ IsDoubleFormError(m.ret.err, c, fn, dep_type, dep_or_name)
    /\ m.ret.err.chain = chain
    /\ m.events = <<>>
    /\ m.ctxs = ctxs
    /\ m.hist = hist

\* the first parameter of target that is in the other form, those before it
\* being hits in the recorded form; 0 if there is none
FirstInOtherForm(c, target) ==
    LET params == Factories[target].params
        other == {k \in DOMAIN params :
                     /\ params[k].default # ""
                     /\ CachedInOtherForm(c, params[k].default, params[k].type)
                     /\ \A j \in 1..(k - 1) :
                            /\ params[j].default # ""
                            /\ CachedInSameForm(c, params[j].default, params[j].type)}
    IN  IF other = {} THEN 0 ELSE CHOOSE k \in other : TRUE

\* C7: a create of a producer that has a cache entry in its owning scope, in
\* a form whose need for unwrapping differs from the recorded flag, fails
\* with `already resolved` when the entry holds the unwrapped value and with
\* `requested unresolved` when it holds the wrapped one, naming the requested
\* form, the recorded form and the producer, calls nothing and changes
\* nothing; so does an invoke whose parameter is such a request, and every
\* double-form error that reaches the caller, through whatever chain of
\* callables, stems from such an entry of a producer called exactly once.
C7_DoubleForm ==
    /\ \A c \in DOMAIN ctxs, r \in Requests(scn) :
           (/\ ctxs[c].entered
            /\ r.op = "create"
            /\ RequestedFactory(c, r) # ""
            /\ CachedInOtherForm(c, RequestedFactory(c, r), r.dep_type))
           => RejectsDoubleForm(create(Machine, c, r.dep_type, r.dep_or_name), c,
                                RequestedFactory(c, r), r.dep_type, r.dep_or_name, <<>>)
    /\ \A c \in DOMAIN ctxs, r \in Requests(scn) :
           (/\ ctxs[c].entered
            /\ r.op = "invoke"
            /\ FirstInOtherForm(c, r.dep_or_name.id) # 0)
           => LET param == Factories[r.dep_or_name.id].params[
                               FirstInOtherForm(c, r.dep_or_name.id)]
              IN  RejectsDoubleForm(invoke(Machine, c, r.dep_or_name.id), c,
                      param.default, param.type, D(TRUE, param.default),
                      <<[kind |-> "InvokableDependencyError",
                         invokable |-> r.dep_or_name.id, fn_overridden |-> ""]>>)
    /\ (last.op \in {"create", "invoke"} /\ last.ret.err.kind \in DoubleFormKinds) =>
           /\ CachedInOtherForm(last.ctx, last.ret.err.factory, last.ret.err.dep_type)
           /\ IsDoubleFormError(last.ret.err, last.ctx, last.ret.err.factory,
                                last.ret.err.dep_type, last.ret.err.dep_or_name)
           /\ Count(hist[ScopeOf(last.ctx, last.ret.err.factory)].calls,
                    last.ret.err.factory) = 1
           /\ Count(CalledFor(last.events, ScopeOf(last.ctx, last.ret.err.factory)),
                    last.ret.err.factory) <= 1

\* a transitive second request: the producer was cached in wrapped form and
\* a dependency of a parameter of the invoked callable asks for its value
C7_Witness ==
    /\ last.op = "invoke"
    /\ last.ret.err.kind = "ValueFromFactoryWereRequestedUnresolved"
    /\ last.ret.err.factory = "cm_foo"
    /\ Len(last.ret.err.chain) = 2
    /\ last.events = <<>>

\* the producer the first parameter of a callable resolves to on c ("" when
\* the callable has no parameter or nothing is registered under the name)
FirstParamFactory(c, target) ==
    LET params == Factories[target].params
    IN  IF params = <<>>
        THEN ""
        ELSE IF params[1].default # ""
        THEN params[1].default
        ELSE lookup_implicit_factory(ctxs, c, params[1].name)

\* m fails with the cross-scope violation for the dependency, wrapped as
\* chain says, calling nothing and changing nothing
RejectsCrossScope(m, dep_type, dep_or_name, chain) ==
    /\ ~m.ret.ok
    /\ m.ret.err.kind = "HandlerScopeDepRequestedFromAppScope"
    /\ m.ret.err.dep_type = dep_type
    /\ m.ret.err.dep_or_name = dep_or_name
    /\ m.ret.err.creation_type = IF dep_or_name.explicit THEN "explicit" ELSE "implicit"
    /\ m.ret.err.chain = chain
    /\ m.events = <<>>
    /\ m.ctxs = ctxs
    /\ m.hist = hist

AppOnHandler == {fn \in AppScoped : Deps(fn) \cap HandlerScoped # {}}

\* C9: an App-scoped producer that declares a dependency on a
\* Request-scoped producer is never called and never has a cache entry, and
\* a create of it in a request scope fails with the cross-scope violation.
C9_NoCrossScopeLeakage ==
    /\ \A c \in DOMAIN ctxs, fn \in AppOnHandler :
           /\ fn \notin DOMAIN ctxs[c].cache
           /\ Count(hist[c].calls, fn) = 0
    /\ (last.op = "create" /\ IsHandler(last.ctx) /\ LastFactory \in AppOnHandler) =>
           /\ ~last.ret.ok
           /\ last.ret.err.kind = "HandlerScopeDepRequestedFromAppScope"

\* a producer that is among its own dependencies
OnCycle(fn) == fn \in TransDeps(Deps(fn), {})

\* a producer whose construction runs into a cycle
ReachesCycle(fn) == \E f \in Sub(fn) : OnCycle(f)

\* the report of a cycle: it starts at the repeated producer and goes along
\* dependency edges, each producer once, back to it
IsCycleReport(err) ==
    /\ err.cycle # <<>>
    /\ err.cycle[1] = err.factory
    /\ \A i, j \in DOMAIN err.cycle : err.cycle[i] = err.cycle[j] => i = j
    /\ \A i \in 1..(Len(err.cycle) - 1) : err.cycle[i + 1] \in Deps(err.cycle[i])
    /\ err.factory \in Deps(err.cycle[Len(err.cycle)])

\* m fails with the cycle error, and has called no producer of the cycle
RejectsCycle(m) ==
    /\ ~m.ret.ok
    /\ m.ret.err.kind = "RuntimeError"
    /\ IsCycleReport(m.ret.err)
    /\ \A i \in DOMAIN m.events : m.events[i].fn \notin Range(m.ret.err.cycle)
    /\ \A c \in DOMAIN m.ctxs :
           /\ DOMAIN m.ctxs[c].cache \cap Range(m.ret.err.cycle) = {}
           /\ Range(m.hist[c].calls) \cap Range(m.ret.err.cycle) = {}

\* C10: a create or invoke in a request scope that reaches a producer still
\* under construction fails with the cycle error (a RuntimeError) whose cycle
\* starts at the repeated producer and lists those entered after it in
\* construction order ([f, g] for f -> g -> f, also when entered through h);
\* no producer of the cycle is called or cached, in that call or ever.
C10_ConstructionCycle ==
    /\ \A c \in DOMAIN ctxs, r \in Requests(scn) :
           (/\ IsHandler(c)
            /\ ctxs[c].entered
            /\ r.dep_or_name.explicit
            /\ ReachesCycle(r.dep_or_name.id))
           => RejectsCycle(IF r.op = "create"
                           THEN create(Machine, c, r.dep_type, r.dep_or_name)
                           ELSE invoke(Machine, c, r.dep_or_name.id))
    /\ (last.op \in {"create", "invoke"} /\ last.ret.err.kind = "RuntimeError") =>
           /\ IsCycleReport(last.ret.err)
           /\ \A i \in DOMAIN last.events :
                  last.events[i].fn \notin Range(last.ret.err.cycle)
    /\ \A c \in DOMAIN ctxs, fn \in FactoryNames :
           OnCycle(fn) => /\ fn \notin DOMAIN ctxs[c].cache
                          /\ Count(hist[c].calls, fn) = 0

\* the cycle f -> g -> f has been entered through h and reported as [f, g]
C10_Witness ==
    /\ last.op = "create"
    /\ last.request.dep_or_name.id = "cycle_h"
    /\ last.ret.err.kind = "RuntimeError"
    /\ last.ret.err.factory = "cycle_f"
    /\ last.ret.err.cycle = <<"cycle_f", "cycle_g">>

\* the producers the root's override table replaces
Overridden == DOMAIN root.override_factories

\* the call events of producer fn among events
CallsOf(events, fn) ==
    {i \in DOMAIN events : events[i].op = "call" /\ events[i].fn = fn}

\* the producers of the parameters of a callable resolved on c: the explicit
\* ones and those registered under a parameter's name
ParamFactories(c, target) ==
    {IF Factories[target].params[i].default # ""
     THEN Factories[target].params[i].default
     ELSE lookup_implicit_factory(ctxs, c, Factories[target].params[i].name) :
         i \in DOMAIN Factories[target].params} \ {""}

\* the producers the last call asked for
Asked ==
    IF last.op = "create"
    THEN {RequestedFactory(last.ctx, last.request)} \ {""}
    ELSE ParamFactories(last.ctx, last.request.dep_or_name.id)

\* fn has been called for the scope its values live in when asked for on c
CalledInScope(c, fn) == Count(hist[ScopeOf(c, fn)].calls, fn) > 0

\* C11: with an override table orig -> repl at the root, a create of orig
\* (explicit or by name) or an invoke of a callable with a parameter on orig
\* never invokes orig; when it succeeds, repl has been invoked with repl's own
\* dependencies resolved, and the producer repl is itself replaced by has not
\* been invoked for it.
C11_OverrideTable ==
    (last.op \in {"create", "invoke"}) =>
        \A orig \in Asked \cap Overridden :
            /\ CallsOf(last.events, orig) = {}
            /\ last.ret.ok =>
                   /\ CalledInScope(last.ctx, root.override_factories[orig])
                   /\ \A d \in Deps(root.override_factories[orig]) :
                          CalledInScope(last.ctx, d)
                   /\ root.override_factories[orig] \in Overridden =>
                          CallsOf(last.events,
                                  root.override_factories[root.override_factories[orig]]) = {}

\* the handler instances of a call's result are those of the state, untouched
LeavesInstances(m) ==
    /\ m.ret.ok
    /\ m.ctxs = ctxs
    /\ m.events = <<>>

\* C12: entering the next scope from an entered Request context, with or
\* without implicit factories, makes no instance and leaves every cache,
\* release stack and implicit-factory table as it was, and the guard yields
\* the Request context itself; leaving that guard changes nothing either.
\* Whatever was acquired on a Request instance stays held, in order, while it
\* is entered, under however many guards, and is released by the exit of
\* the guard that entered the instance, which comes after the nested ones.
C12_ScopeFlattening ==
    /\ \A h \in DOMAIN ctxs, f \in ImplicitFactories(scn, "handler") :
           (IsHandler(h) /\ ctxs[h].entered) =>
               /\ LeavesInstances(enter_next_scope(Machine, h, f))
               /\ LeavesInstances(nullcontext_exit(Machine, h))
    /\ last.op = "enter_nested" =>
           /\ IsHandler(last.ctx)
           /\ ctxs[last.ctx].entered
           /\ hist[last.ctx].guards > 0
    /\ last.op = "exit_nested" =>
           /\ ctxs[last.ctx].entered
           /\ last.events = <<>>
    /\ \A h \in DOMAIN ctxs :
           (IsHandler(h) /\ ctxs[h].entered) =>
               /\ ctxs[h].exit_stack = hist[h].acquired
               /\ hist[h].released = <<>>
    /\ \A h \in DOMAIN ctxs : hist[h].guards > 0 => ctxs[h].entered
    /\ (last.op = "exit" /\ last.left.kind = "handler") =>
           /\ last.hist.guards = 0
           /\ last.hist.released = Reverse(last.hist.acquired)

\* a nested guard of a Request instance that holds a resource and has a cache
\* entry has been left, and the resource is still held
C12_Witness ==
    /\ last.op = "exit_nested"
    /\ ctxs[last.ctx].exit_stack # <<>>
    /\ ctxs[last.ctx].cache # <<>>
    /\ hist[last.ctx].acquired = ctxs[last.ctx].exit_stack

\* C13: an App/Request instance is entered at most once over its life.  Every
\* instance the caller holds has been entered when it was made, so _enter
\* on it fails, whether the instance is still entered or has been exited.
C13_EnteredAtMostOnce ==
    /\ \A c \in DOMAIN ctxs : ~BaseContext_enter(Machine, c).ret.ok
    /\ last.op = "reenter" =>
           /\ ~last.ret.ok
           /\ last.ret.err.kind = "RuntimeError"

\* m has failed and has touched nothing: no cache, no exit stack, no call
FailsUntouched(m) ==
    /\ ~m.ret.ok
    /\ m.ctxs = ctxs
    /\ m.events = <<>>

\* C14: a create or invoke with an App/Request instance that is not entered
\* fails without reading or writing a cache, without calling any producer
\* and without pushing onto an exit stack.
C14_NotEnteredFails ==
    /\ \A c \in DOMAIN ctxs, r \in Requests(scn) :
           ~ctxs[c].entered =>
               FailsUntouched(IF r.op = "create"
                              THEN create(Machine, c, r.dep_type, r.dep_or_name)
                              ELSE invoke(Machine, c, r.dep_or_name.id))
    /\ (last.op \in {"create", "invoke"} /\ ~ctxs[last.ctx].entered) =>
           /\ ~last.ret.ok
           /\ last.events = <<>>

\* C15: once the guard of a Request instance has been left, every resource
\* ever acquired on the instance has been released exactly once and nothing
\* is held on its exit stack.
C15_NoResourceOutlivesRequest ==
    \A h \in DOMAIN ctxs :
        (IsHandler(h) /\ ~ctxs[h].entered) =>
            /\ ctxs[h].exit_stack = <<>>
            /\ \A i \in DOMAIN hist[h].acquired :
                   Count(hist[h].released, hist[h].acquired[i]) = 1

\* the values entered on an exit stack in the course of a call
EnteredIn(events) == {events[i].val : i \in {j \in DOMAIN events : events[j].op = "enter"}}

\* C16: whatever fails, a producer, the target callable or the guarded block
\* itself, nothing acquired is lost: while an instance is entered everything
\* acquired on it is on its exit stack, in the order of acquisition, what a
\* failed create or invoke had acquired before it failed included; leaving
\* the guard, with or without an exception in flight, releases all of it in
\* the reverse order and leaves the instance not entered.
C16_PartialConstructionNeverLeaks ==
    /\ \A c \in DOMAIN ctxs :
           ctxs[c].entered =>
               /\ ctxs[c].exit_stack = hist[c].acquired
               /\ hist[c].released = <<>>
    /\ (last.op \in {"create", "invoke"} /\ ~last.ret.ok) =>
           \A v \in EnteredIn(last.events) : Count(ctxs[v.owner].exit_stack, v) = 1
    /\ last.op = "exit" =>
           /\ ~last.left.entered
           /\ last.left.exit_stack = <<>>
           /\ last.hist.released = Reverse(last.hist.acquired)
           /\ last.events =
                  [i \in DOMAIN last.hist.released |->
                      Event("exit", last.hist.released[i].fn, last.hist.released[i], <<>>)]

\* a guarded block in which a call has failed raises, and leaving its guard
\* has released the resources acquired on the instance
C16_Witness ==
    /\ last.op = "exit"
    /\ ~last.ret.ok
    /\ last.hist.failed
    /\ last.hist.released # <<>>

\* one of the factories of the mapping is App-scoped
AnyAppScoped(implicit_factories) ==
    \E name \in DOMAIN implicit_factories : implicit_factories[name] \in AppScoped

\* m has failed with the usage error and has made or changed no instance
RejectsImplicitFactories(m) ==
    /\ ~m.ret.ok
    /\ m.ret.err.kind = "ValueError"
    /\ m.ctxs = ctxs
    /\ m.events = <<>>

\* C17: entering a Request scope from an entered App context with implicit
\* factories of which one is App-scoped fails with ValueError; no Request
\* instance is made, and the App context keeps its cache, exit stack and
\* entered flag.  No Request instance ever has an App-scoped implicit factory.
C17_AppScopedImplicitFactoryRejected ==
    /\ \A a \in DOMAIN ctxs, f \in ImplicitFactories(scn, "handler") :
           (IsApp(a) /\ ctxs[a].entered /\ AnyAppScoped(f)) =>
               RejectsImplicitFactories(enter_next_scope(Machine, a, f))
    /\ (last.op = "enter" /\ ~last.ret.ok) =>
           /\ last.ret.err.kind = "ValueError"
           /\ IsApp(last.ctx)
           /\ ctxs[last.ctx].entered
    /\ \A h \in DOMAIN ctxs :
           IsHandler(h) => ~AnyAppScoped(ctxs[h].implicit_factories)

\* an enter with an App-scoped implicit factory has been refused by an App
\* context that has a cache entry
C17_Witness ==
    /\ last.op = "enter"
    /\ ~last.ret.ok
    /\ last.ret.err.kind = "ValueError"
    /\ ctxs[last.ctx].cache # <<>>
    /\ Instances("handler") # {}

(***************************************************************************)
(* Source precedence of a by-name dependency.                              *)
(***************************************************************************)
\* the implicit factory registered under name on c or, for a Request
\* instance without one, on its App instance ("" when there is none)
NearestImplicit(c, name) ==
    IF name \in DOMAIN ctxs[c].implicit_factories
    THEN ctxs[c].implicit_factories[name]
    ELSE IF IsHandler(c) /\ name \in DOMAIN ctxs[AppOf(c)].implicit_factories
    THEN ctxs[AppOf(c)].implicit_factories[name]
    ELSE ""

\* a create by name on c that gave m took the first source there is: the
\* nearest implicit factory, else the bootstrap value, else none
TakesFirstSource(m, c, name) ==
    IF NearestImplicit(c, name) # ""
    THEN /\ m.ret.ok => m.ret.val.fn = NearestImplicit(c, name)
         /\ ~m.ret.ok => m.ret.err.creation_type = "implicit"
    ELSE IF name \in DOMAIN root.bootstrap_values
    THEN /\ m.events = <<>>
         /\ m.ctxs = ctxs
         /\ m.ret.ok => m.ret.val = root.bootstrap_values[name]
         /\ ~m.ret.ok => m.ret.err.creation_type = "bootstrap"
    ELSE /\ ~m.ret.ok
         /\ m.ret.err.creation_type = "implicit-or-bootstrap"

\* the producer of a parameter resolved on c ("" for a bootstrap value)
ArgSource(c, param) ==
    IF param.default # "" THEN param.default ELSE NearestImplicit(c, param.name)

\* the arguments the target of the last invoke was called with
TargetArgs == last.events[Len(last.events)].args

\* C18: a parameter with an explicit producer always gets the value of that
\* producer; a by-name dependency gets the value of the implicit factory
\* registered under the name on the Request instance, else of the one on the
\* App instance, else the bootstrap value of the root; the first source found
\* is the one used.
C18_SourcePrecedence ==
    /\ \A c \in DOMAIN ctxs, r \in Requests(scn) :
           (ctxs[c].entered /\ r.op = "create" /\ ~r.dep_or_name.explicit) =>
               TakesFirstSource(create(Machine, c, r.dep_type, r.dep_or_name), c,
                                r.dep_or_name.id)
    /\ (last.op = "create" /\ last.request.dep_or_name.explicit /\ last.ret.ok) =>
           last.ret.val.fn = last.request.dep_or_name.id
    /\ (last.op = "invoke" /\ last.ret.ok) =>
           /\ Len(TargetArgs) = Len(Factories[last.request.dep_or_name.id].params)
           /\ \A i \in DOMAIN TargetArgs :
                  /\ TargetArgs[i].fn =
                         ArgSource(last.ctx, Factories[last.request.dep_or_name.id].params[i])
                  /\ TargetArgs[i].fn = "" =>
                         TargetArgs[i] =
                             root.bootstrap_values[
                                 Factories[last.request.dep_or_name.id].params[i].name]

\* byname_fn was called with the value of the Request instance's factory while
\* the App instance has another factory and the root a value under the name
C18_Witness ==
    /\ last.op = "invoke"
    /\ last.ret.ok
    /\ last.request.dep_or_name.id = "byname_fn"
    /\ IsHandler(last.ctx)
    /\ "foo" \in DOMAIN ctxs[last.ctx].implicit_factories
    /\ "foo" \in DOMAIN ctxs[AppOf(last.ctx)].implicit_factories
    /\ "foo" \in DOMAIN root.bootstrap_values
    /\ TargetArgs[1].fn = "sync_foo"

(***************************************************************************)
(* Lookup failure of a by-name dependency.                                 *)
(***************************************************************************)
\* nothing is registered under name for c: no implicit factory on c or its
\* App instance and no bootstrap value at the root
NoSource(c, name) ==
    NearestImplicit(c, name) = "" /\ name \notin DOMAIN root.bootstrap_values

\* the by-name parameters of target without a source on c
MissingParams(c, target) ==
    {i \in DOMAIN Factories[target].params :
         /\ Factories[target].params[i].default = ""
         /\ NoSource(c, Factories[target].params[i].name)}

FirstMissing(c, target) ==
    CHOOSE i \in MissingParams(c, target) : \A j \in MissingParams(c, target) : i <= j

\* the parameters of target before the i-th and what they are resolved from
EarlierParams(target, i) == {Factories[target].params[j] : j \in 1..(i - 1)}

EarlierResolve(c, target, i) ==
    \A p \in EarlierParams(target, i) :
        create(Machine, c, p.type,
               IF p.default # "" THEN D(TRUE, p.default) ELSE D(FALSE, p.name)).ret.ok

IsLookupFailure(err, dep_type, name) ==
    /\ err.kind = "DependencyByNameNotFound"
    /\ err.dep_type = dep_type
    /\ err.dep_or_name = D(FALSE, name)
    /\ err.creation_type = "implicit-or-bootstrap"

\* a create by name that gave m failed on the lookup and left no trace
CreateFailsOnLookup(m, dep_type, name) ==
    /\ ~m.ret.ok
    /\ IsLookupFailure(m.ret.err, dep_type, name)
    /\ m.ret.err.chain = <<>>
    /\ m.events = <<>>
    /\ m.ctxs = ctxs

\* an invoke of target that gave m failed on the lookup of its i-th parameter
\* (when the parameters before it resolve) and did not call target
InvokeFailsOnLookup(m, c, target, i) ==
    /\ ~m.ret.ok
    /\ CallsOf(m.events, target) = {}
    /\ EarlierResolve(c, target, i) =>
           /\ IsLookupFailure(m.ret.err, Factories[target].params[i].type,
                              Factories[target].params[i].name)
           /\ m.ret.err.chain = << [kind |-> "InvokableDependencyError",
                                     invokable |-> target, fn_overridden |-> ""] >>

\* the caches of m differ from the current ones only by entries for fns
CachesDifferOnlyBy(m, fns) ==
    /\ DOMAIN m.ctxs = DOMAIN ctxs
    /\ \A c \in DOMAIN ctxs :
           /\ \A fn \in DOMAIN ctxs[c].cache :
                  fn \in DOMAIN m.ctxs[c].cache /\ m.ctxs[c].cache[fn] = ctxs[c].cache[fn]
           /\ DOMAIN m.ctxs[c].cache \subseteq DOMAIN ctxs[c].cache \cup fns

\* the producers reached from the parameters of target before the i-th
EarlierProducers(c, target, i) ==
    TransDeps({ArgSource(c, p) : p \in EarlierParams(target, i)} \ {""}, {})

\* C19 as stated: a by-name dependency without an implicit factory on the
\* context chain and without a bootstrap value fails with
\* DependencyByNameNotFound tagged 'implicit-or-bootstrap', the target callable
\* is not invoked and no cache changes.
C19_LookupFailureChangesNoCache ==
    \A c \in DOMAIN ctxs, r \in Requests(scn) :
        /\ (ctxs[c].entered /\ r.op = "create" /\ ~r.dep_or_name.explicit
                /\ NoSource(c, r.dep_or_name.id)) =>
               CreateFailsOnLookup(create(Machine, c, r.dep_type, r.dep_or_name),
                                   r.dep_type, r.dep_or_name.id)
        /\ (ctxs[c].entered /\ r.op = "invoke" /\ ValidCallable(r.dep_or_name.id)
                /\ MissingParams(c, r.dep_or_name.id) # {}) =>
               /\ InvokeFailsOnLookup(invoke(Machine, c, r.dep_or_name.id), c,
                                      r.dep_or_name.id, FirstMissing(c, r.dep_or_name.id))
               /\ invoke(Machine, c, r.dep_or_name.id).ctxs = ctxs

\* C19, amended: such a dependency fails with DependencyByNameNotFound tagged
\* 'implicit-or-bootstrap' and the target callable is not invoked; a create
\* changes no cache, and an invoke changes the caches only by the values of
\* the parameters resolved before the by-name one, which stay cached.
C19_LookupFailure ==
    \A c \in DOMAIN ctxs, r \in Requests(scn) :
        /\ (ctxs[c].entered /\ r.op = "create" /\ ~r.dep_or_name.explicit
                /\ NoSource(c, r.dep_or_name.id)) =>
               CreateFailsOnLookup(create(Machine, c, r.dep_type, r.dep_or_name),
                                   r.dep_type, r.dep_or_name.id)
        /\ (ctxs[c].entered /\ r.op = "invoke" /\ ValidCallable(r.dep_or_name.id)
                /\ MissingParams(c, r.dep_or_name.id) # {}) =>
               /\ InvokeFailsOnLookup(invoke(Machine, c, r.dep_or_name.id), c,
                                      r.dep_or_name.id, FirstMissing(c, r.dep_or_name.id))
               /\ CachesDifferOnlyBy(invoke(Machine, c, r.dep_or_name.id),
                                     EarlierProducers(c, r.dep_or_name.id,
                                                      FirstMissing(c, r.dep_or_name.id)))

\* after_fn failed on its by-name parameter on a Request instance, and the
\* value of the parameter before it is in the instance's cache
C19_Witness ==
    /\ last.op = "invoke"
    /\ last.request.dep_or_name.id = "after_fn"
    /\ IsHandler(last.ctx)
    /\ ~last.ret.ok
    /\ IsLookupFailure(last.ret.err, Foo, "missing")
    /\ CallsOf(last.events, "async_foo") # {}
    /\ "async_foo" \in DOMAIN ctxs[last.ctx].cache

(***************************************************************************)
(* Shape mismatch of a by-name dependency.                                 *)
(***************************************************************************)
\* what the source of name gives on c, before the check of its type: the
\* value of the nearest implicit factory in the requested form, else the
\* bootstrap value
Produced(c, dep_type, name) ==
    IF NearestImplicit(c, name) # ""
    THEN create_from_factory_cached(Machine, c, dep_type, D(FALSE, name),
                                    NearestImplicit(c, name), FALSE).ret
    ELSE IF name \in DOMAIN root.bootstrap_values
    THEN Ok(root.bootstrap_values[name], FALSE)
    ELSE Raise(NoErr)

SourceKind(c, name) == IF NearestImplicit(c, name) # "" THEN "implicit" ELSE "bootstrap"

\* ret is a value that is no instance of the class cls
NotOfType(ret, cls) == ret.ok /\ cls # "object" /\ TypeOf(ret.val) # cls

IsShapeMismatch(err, dep_type, name, creation_type, actual_type) ==
    /\ err.kind = "ValueOfUnexpectedTypeReceived"
    /\ err.dep_type = dep_type
    /\ err.dep_or_name = D(FALSE, name)
    /\ err.creation_type = creation_type
    /\ err.val_type = dep_type.cls
    /\ err.actual_type = actual_type

\* a create by name that gave m reports the value ret of the wrong type
CreateReportsMismatch(m, ret, c, dep_type, name) ==
    /\ ~m.ret.ok
    /\ IsShapeMismatch(m.ret.err, dep_type, name, SourceKind(c, name), TypeOf(ret.val))
    /\ m.ret.err.chain = <<>>

\* an invoke of target that gave m did not call target, and reports the value
\* ret of the wrong type for its i-th parameter when those before it resolve
InvokeReportsMismatch(m, ret, c, target, i) ==
    /\ ~m.ret.ok
    /\ CallsOf(m.events, target) = {}
    /\ EarlierResolve(c, target, i) =>
           /\ IsShapeMismatch(m.ret.err, Factories[target].params[i].type,
                              Factories[target].params[i].name,
                              SourceKind(c, Factories[target].params[i].name),
                              TypeOf(ret.val))
           /\ m.ret.err.chain = << [kind |-> "InvokableDependencyError",
                                     invokable |-> target, fn_overridden |-> ""] >>

Deltas(fn, dep_type) ==
    << cm_factory_count_nesting_levels(fn) - cm_count_nesting_levels(dep_type),
       async_cm_factory_count_nesting_levels(fn) - async_cm_count_nesting_levels(dep_type),
       awaitable_factory_count_nesting_levels(fn) - awaitable_count_nesting_levels(dep_type) >>

Consistent(fn, dep_type) == \A i \in 1..3 : Deltas(fn, dep_type)[i] \in {0, 1}

\* a create that gave m failed with the consistency error and cached nothing
RejectsInconsistent(m) ==
    /\ ~m.ret.ok
    /\ m.ret.err.kind = "TypeError"
    /\ m.ctxs = ctxs

\* C21: for every producer and requested type the delta producer depth minus
\* requested depth on each axis decides the action: 0 no action, 1 exactly one
\* await or acquire; with a delta outside {0, 1} on any axis the creation
\* fails with the consistency error, on the first request as on a later one,
\* and no value is returned or cached.
C21_DeltaDecidesAction ==
    \A c \in DOMAIN ctxs, r \in Requests(scn) :
        (/\ ctxs[c].entered
         /\ IsHandler(c)
         /\ r.op = "create"
         /\ r.dep_or_name.explicit) =>
            /\ ~Consistent(r.dep_or_name.id, r.dep_type) =>
                   RejectsInconsistent(create(Machine, c, r.dep_type, r.dep_or_name))
            /\ (/\ Consistent(r.dep_or_name.id, r.dep_type)
                /\ create(Machine, c, r.dep_type, r.dep_or_name).ret.ok) =>
                   create(Machine, c, r.dep_type, r.dep_or_name).ret.action_performed
                       = (\E i \in 1..3 : Deltas(r.dep_or_name.id, r.dep_type)[i] = 1)

(***************************************************************************)
(* Concurrent calls on one scope instance.                                 *)
(***************************************************************************)
\* the resources of producer fn acquired on instance c
AcquiredOf(c, fn) == {i \in DOMAIN hist[c].acquired : hist[c].acquired[i].fn = fn}

\* two finished tasks that asked the same of the same instance
SameCall(t, u) ==
    /\ tasks[t].pc = "done"
    /\ tasks[u].pc = "done"
    /\ tasks[t].ctx = tasks[u].ctx
    /\ tasks[t].request = tasks[u].request

\* C22: with calls running concurrently on one App or Request instance,
\* interleaved at every suspension point of an asynchronous producer or
\* acquisition, access to the instance's cache and release stack is
\* serialized: each producer is invoked at most once per scope instance, each
\* resource is acquired at most once, and the calls receive the same value.
C22_ConcurrentAccessSerialized ==
    /\ \A c \in DOMAIN ctxs, fn \in FactoryNames :
           /\ Count(hist[c].calls, fn) <= 1
           /\ Cardinality(AcquiredOf(c, fn)) <= 1
    /\ \A t \in DOMAIN tasks, u \in DOMAIN tasks :
           (SameCall(t, u) /\ tasks[t].ret.ok /\ tasks[u].ret.ok) =>
               tasks[t].args = tasks[u].args

(***************************************************************************)
(* C24: the validation of a callable's parameter list.                     *)
(***************************************************************************)
\* the parameter breaks a rule: no annotation, an annotation that is not a
\* dependency annotation with its type, a kind other than positional-or-
\* keyword and keyword-only, or a default that is not a dependency marker
Violates(param) ==
    \/ param.annotation # "Depends[T]"
    \/ param.kind \notin {"POSITIONAL_OR_KEYWORD", "KEYWORD_ONLY"}
    \/ param.bad_default

\* the names of the parameters of fn that break a rule
ViolatingParams(fn) ==
    {Factories[fn].params[i].name :
         i \in {j \in DOMAIN Factories[fn].params : Violates(Factories[fn].params[j])}}

\* the call failed on the validation of fn and named exactly the violating
\* parameters, before any producer was called and with every cache as it was
RejectsInvalid(m, fn) ==
    /\ ~m.ret.ok
    /\ m.ret.err.kind = "InvalidInvokableFunction"
    /\ m.ret.err.factory = fn
    /\ DOMAIN m.ret.err.args_errs \ {""} = ViolatingParams(fn)
    /\ m.events = <<>>
    /\ m.ctxs = ctxs

\* C24: the invalid-callable error has an entry for every parameter that
\* breaks a rule (missing annotation, disallowed kind, non-dependency
\* annotation, malformed default) and none for a valid parameter, and invoke
\* validates its target before resolving any parameter: an invalid target
\* causes no producer call and no cache change.
C24_ValidationCollectsAll ==
    \A c \in DOMAIN ctxs, r \in Requests(scn) :
        (/\ ctxs[c].entered
         /\ r.op = "invoke"
         /\ ViolatingParams(r.dep_or_name.id) # {}) =>
            RejectsInvalid(invoke(Machine, c, r.dep_or_name.id), r.dep_or_name.id)

(***************************************************************************)
(* C23: how a failure of parameter resolution reaches the caller of invoke.*)
(***************************************************************************)
\* the failures of resolving a dependency: lookup failure, shape mismatch,
\* cross-scope request, the two double-form requests, consistency violation,
\* construction cycle, invalid callable
ResolutionFailureKinds ==
    CreationErrorKinds \cup {"TypeError", "RuntimeError", "InvalidInvokableFunction"}

\* chain, read from the failing edge outwards, is an InvokableDependencyError
\* naming the callable whose parameter failed, then one NestedInvokeError per
\* level above it, each naming a callable with a parameter on the callable of
\* the layer below, up to the target
WrappedDownFrom(chain, c, target) ==
    /\ chain # <<>>
    /\ chain[1].kind = "InvokableDependencyError"
    /\ chain[Len(chain)].invokable = target
    /\ \A i \in 2..Len(chain) :
           /\ chain[i].kind = "NestedInvokeError"
           /\ \E j \in DOMAIN Factories[chain[i].invokable].params :
                  ArgSource(c, Factories[chain[i].invokable].params[j])
                      = chain[i - 1].invokable

\* C23: every failure kind (lookup failure, shape mismatch, consistency
\* violation, double-form request, cross-scope violation, construction cycle,
\* invalid callable) met while resolving a parameter reaches the caller of
\* invoke wrapped: InvokableDependencyError naming the callable whose direct
\* parameter failed, inside one NestedInvokeError per level above it, each
\* naming the callable of that level, from the target down to the failing edge.
C23_FailuresReachCallerWrapped ==
    (/\ last.op = "invoke"
     /\ ~last.ret.ok
     /\ ValidCallable(last.request.dep_or_name.id)
     /\ last.ret.err.kind \in ResolutionFailureKinds) =>
        WrappedDownFrom(last.ret.err.chain, last.ctx, last.request.dep_or_name.id)

(***************************************************************************)
(* C25: a by-name dependency that resolves to a root bootstrap value.      *)
(***************************************************************************)
\* name, asked for on c as a dep_type, resolves to a bootstrap value: no
\* instance up from c has a factory under the name, and the root has a value
\* of the type under it
FromBootstrap(c, dep_type, name) ==
    /\ dep_type.wr = <<>>
    /\ NearestImplicit(c, name) = ""
    /\ name \in DOMAIN root.bootstrap_values
    /\ root.bootstrap_values[name].cls = dep_type.cls

\* every parameter of target resolves to a bootstrap value on c
AllFromBootstrap(c, target) ==
    /\ Factories[target].params # <<>>
    /\ \A i \in DOMAIN Factories[target].params :
           /\ Factories[target].params[i].default = ""
           /\ FromBootstrap(c, Factories[target].params[i].type,
                            Factories[target].params[i].name)

\* the create returned the stored value, called nothing and changed nothing
ReturnsStored(m, name) ==
    /\ m.ret.ok
    /\ m.ret.val = root.bootstrap_values[name]
    /\ m.events = <<>>
    /\ m.ctxs = ctxs
    /\ m.hist = hist

\* the target got the stored values and was the only callable called, and
\* every cache and release stack is as before
PassesStored(m, target) ==
    /\ m.ret.ok
    /\ Len(m.events) = 1
    /\ m.events[1].fn = target
    /\ m.events[1].args =
           [i \in DOMAIN Factories[target].params |->
                root.bootstrap_values[Factories[target].params[i].name]]
    /\ m.ctxs = ctxs
    /\ m.hist = hist

\* C25: a by-name dependency that resolves to a root bootstrap value gives
\* exactly the value stored at the root, from an App instance as from a
\* Request instance; resolving it calls no producer and leaves every cache and
\* every release stack as it was.
C25_BootstrapValueReturnedAsStored ==
    \A c \in DOMAIN ctxs, r \in Requests(scn) :
        /\ (/\ ctxs[c].entered
            /\ r.op = "create"
            /\ ~r.dep_or_name.explicit
            /\ FromBootstrap(c, r.dep_type, r.dep_or_name.id)) =>
               ReturnsStored(create(Machine, c, r.dep_type, r.dep_or_name),
                             r.dep_or_name.id)
        /\ (/\ ctxs[c].entered
            /\ r.op = "invoke"
            /\ ValidCallable(r.dep_or_name.id)
            /\ r.dep_or_name.id \notin Raising
            /\ AllFromBootstrap(c, r.dep_or_name.id)) =>
               PassesStored(invoke(Machine, c, r.dep_or_name.id), r.dep_or_name.id)

\* byname_fn was called on a Request instance with the root's value for foo,
\* and an App instance has returned the same value to a create by name
C25_Witness ==
    /\ last.op = "invoke"
    /\ last.ret.ok
    /\ last.request.dep_or_name.id = "byname_fn"
    /\ IsHandler(last.ctx)
    /\ AllFromBootstrap(last.ctx, "byname_fn")
    /\ TargetArgs = <<root.bootstrap_values["foo"]>>
    /\ CallsOf(last.events, "sync_foo") = {}
    /\ ctxs[AppOf(last.ctx)].entered
    /\ ReturnsStored(create(Machine, AppOf(last.ctx), Foo, D(FALSE, "foo")), "foo")

(***************************************************************************)
(* C26: an App-scoped producer asked for with a Request context.           *)
(***************************************************************************)
\* the values on the release stack of instance c
OnExitStack(c) == {ctxs[c].exit_stack[i] : i \in DOMAIN ctxs[c].exit_stack}

\* the call event passed, for every parameter on an App-scoped producer, the
\* value the App instance app has cached for the producer
GotAppValues(e, app) ==
    \A k \in DOMAIN Factories[e.fn].params :
        (/\ Factories[e.fn].params[k].default # ""
         /\ Factories[Factories[e.fn].params[k].default].app_scope
         /\ k \in DOMAIN e.args) =>
            /\ Factories[e.fn].params[k].default \in DOMAIN ctxs[app].cache
            /\ e.args[k] = ctxs[app].cache[Factories[e.fn].params[k].default].val
            /\ e.args[k].owner = app

\* C26: an App-scoped producer asked for while a Request context is active is
\* recorded in the cache of the owning App instance, and its release action on
\* the App instance's release stack, never in the Request instance's; a
\* callable that depends on the App-scoped producer and on a Request-scoped
\* producer that depends on it sees one and the same App value in both places.
C26_AppProducerOwnedByApp ==
    /\ \A c \in DOMAIN ctxs :
           IsHandler(c) =>
               /\ \A fn \in DOMAIN ctxs[c].cache : ~Factories[fn].app_scope
               /\ \A v \in OnExitStack(c) : ~Factories[v.fn].app_scope
    /\ (last.op \in {"create", "invoke"} /\ IsHandler(last.ctx)) =>
           \A i \in DOMAIN last.events :
               /\ (/\ last.events[i].op = "call"
                   /\ Factories[last.events[i].fn].app_scope
                   /\ last.events[i].val # NoVal) =>
                      last.events[i].fn \in DOMAIN ctxs[AppOf(last.ctx)].cache
               /\ (/\ last.events[i].op = "enter"
                   /\ Factories[last.events[i].fn].app_scope) =>
                      last.events[i].val \in OnExitStack(AppOf(last.ctx))
               /\ last.events[i].op = "call" =>
                      GotAppValues(last.events[i], AppOf(last.ctx))

\* app_to_handler_fn ran on a Request instance: the App instance holds the
\* value of app_dep_factory1 and its release action, the Request instance
\* those of handler_dep_factory1 only, and handler_dep_factory1 was called
\* with the value app_to_handler_fn got
C26_Witness ==
    /\ last.op = "invoke"
    /\ last.ret.ok
    /\ last.request.dep_or_name.id = "app_to_handler_fn"
    /\ IsHandler(last.ctx)
    /\ "app_dep_factory1" \in DOMAIN ctxs[AppOf(last.ctx)].cache
    /\ TargetArgs[1] = ctxs[AppOf(last.ctx)].cache["app_dep_factory1"].val
    /\ {v.fn : v \in OnExitStack(AppOf(last.ctx))} = {"app_dep_factory1"}
    /\ {v.fn : v \in OnExitStack(last.ctx)} = {"handler_dep_factory1"}
    /\ DOMAIN ctxs[last.ctx].cache = {"handler_dep_factory1"}
    /\ \E i \in DOMAIN last.events :
           /\ last.events[i].op = "call"
           /\ last.events[i].fn = "handler_dep_factory1"
           /\ last.events[i].args = <<TargetArgs[1]>>

(***************************************************************************)
(* C27: what a creation does with the value the producer returned.         *)
(***************************************************************************)
\* the events of kind op that the call made for producer fn
EventsOf(events, op, fn) ==
    {i \in DOMAIN events : events[i].op = op /\ events[i].fn = fn}

\* the creation that gave m awaited the value of fn exactly when the await
\* axis demands it, and acquired it, with one release action pushed on the
\* release stack of owner, exactly when an acquire axis demands it
PerformsDemanded(m, owner, fn, dep_type) ==
    /\ (Deltas(fn, dep_type)[3] = 1) <=> (EventsOf(m.events, "await", fn) # {})
    /\ (Deltas(fn, dep_type)[1] = 1 \/ Deltas(fn, dep_type)[2] = 1)
           <=> (EventsOf(m.events, "enter", fn) # {})
    /\ IF Deltas(fn, dep_type)[1] = 1 \/ Deltas(fn, dep_type)[2] = 1
       THEN /\ Len(m.ctxs[owner].exit_stack) = Len(ctxs[owner].exit_stack) + 1
            /\ m.ctxs[owner].exit_stack[Len(m.ctxs[owner].exit_stack)].fn = fn
            /\ SubSeq(m.ctxs[owner].exit_stack, 1, Len(ctxs[owner].exit_stack))
                   = ctxs[owner].exit_stack
       ELSE m.ctxs[owner].exit_stack = ctxs[owner].exit_stack

\* C27: for each successful creation the unwrapping follows the shape
\* analysis on every axis: the returned value is awaited if the analysis
\* demands awaiting, and acquired, with exactly one release action pushed on
\* the owning scope's release stack, if it demands acquiring; also when both
\* are demanded for one producer (an asynchronous producer of a scoped
\* resource asked for as the plain value); a value asked for in wrapped form
\* is neither awaited nor acquired.
C27_UnwrappingFollowsAnalysis ==
    \A c \in DOMAIN ctxs, r \in Requests(scn) :
        (/\ ctxs[c].entered
         /\ IsHandler(c)
         /\ r.op = "create"
         /\ r.dep_or_name.explicit
         /\ Factories[r.dep_or_name.id].params = <<>>
         /\ Consistent(r.dep_or_name.id, r.dep_type)
         /\ r.dep_or_name.id \notin DOMAIN ctxs[ScopeOf(c, r.dep_or_name.id)].cache
         /\ create(Machine, c, r.dep_type, r.dep_or_name).ret.ok) =>
            PerformsDemanded(create(Machine, c, r.dep_type, r.dep_or_name),
                             ScopeOf(c, r.dep_or_name.id), r.dep_or_name.id, r.dep_type)

(***************************************************************************)
(* C28: the entries of a cache over the life of its scope instance.        *)
(***************************************************************************)
\* every cache entry of an instance that stays entered is kept as it is
EntriesKept ==
    \A c \in DOMAIN ctxs :
        (ctxs[c].entered /\ c \in DOMAIN ctxs' /\ ctxs'[c].entered) =>
            \A fn \in DOMAIN ctxs[c].cache :
                /\ fn \in DOMAIN ctxs'[c].cache
                /\ ctxs'[c].cache[fn] = ctxs[c].cache[fn]

\* C28: cache entries are append-only: once the cache of a scope instance
\* holds an entry for a producer, no later create or invoke on the instance,
\* successful or failed, replaces or removes the entry (value, requested form,
\* action flag), calls that run interleaved on the instance included.
C28_CacheAppendOnly == [][EntriesKept]_vars

(***************************************************************************)
(* C29: one producer reached by several routes in one scope.               *)
(***************************************************************************)
\* the call event passed, for every parameter with a producer (explicit or
\* registered under the parameter's name), the value in the producer's cache
\* entry in its scope instance, and the producer has been called once there
GotCachedValues(e, c) ==
    \A k \in DOMAIN Factories[e.fn].params :
        (/\ k \in DOMAIN e.args
         /\ ArgSource(c, Factories[e.fn].params[k]) # "") =>
            /\ ArgSource(c, Factories[e.fn].params[k])
                   \in DOMAIN ctxs[ScopeOf(c, ArgSource(c, Factories[e.fn].params[k]))].cache
            /\ e.args[k] =
                   ctxs[ScopeOf(c, ArgSource(c, Factories[e.fn].params[k]))]
                       .cache[ArgSource(c, Factories[e.fn].params[k])].val
            /\ Count(hist[ScopeOf(c, ArgSource(c, Factories[e.fn].params[k]))].calls,
                     ArgSource(c, Factories[e.fn].params[k])) = 1

\* C29: the cache is keyed by the producer alone: a producer reached by
\* different routes in one scope (as an explicit producer, as an implicit
\* factory, under two parameter names, through different parent producers) has
\* one cache entry, is called once, and gives all of them the same value.
C29_CacheKeyedByProducer ==
    /\ (last.op = "invoke" /\ last.ret.ok /\ IsHandler(last.ctx)) =>
           \A i \in DOMAIN last.events :
               last.events[i].op = "call" => GotCachedValues(last.events[i], last.ctx)
    /\ (last.op = "create" /\ last.ret.ok /\ IsHandler(last.ctx)
            /\ RequestedFactory(last.ctx, last.request) # "") =>
           /\ RequestedFactory(last.ctx, last.request)
                  \in DOMAIN ctxs[ScopeOf(last.ctx, RequestedFactory(last.ctx, last.request))].cache
           /\ last.ret.val =
                  ctxs[ScopeOf(last.ctx, RequestedFactory(last.ctx, last.request))]
                      .cache[RequestedFactory(last.ctx, last.request)].val

\* routes_fn ran on a Request instance: sync_foo was called once, and
\* routes_fn under two parameter names and by name, parent1 and parent2 all
\* got the one value in its cache entry
C29_Witness ==
    /\ last.op = "invoke"
    /\ last.ret.ok
    /\ last.request.dep_or_name.id = "routes_fn"
    /\ IsHandler(last.ctx)
    /\ Count(hist[last.ctx].calls, "sync_foo") = 1
    /\ TargetArgs[2] = ctxs[last.ctx].cache["sync_foo"].val
    /\ TargetArgs[3] = TargetArgs[2]
    /\ TargetArgs[4] = TargetArgs[2]
    /\ \E i, j \in DOMAIN last.events :
           /\ last.events[i].op = "call"
           /\ last.events[i].fn = "parent1"
           /\ last.events[i].args = <<TargetArgs[2]>>
           /\ last.events[j].op = "call"
           /\ last.events[j].fn = "parent2"
           /\ last.events[j].args = <<TargetArgs[2]>>

(***************************************************************************)
(* C30: a replacement from the override table that fails to resolve its    *)
(* dependencies.                                                           *)
(***************************************************************************)
\* repl cannot resolve its dependencies: it is App-scoped and has a parameter
\* on a Request-scoped producer
CannotResolveDeps(repl) ==
    /\ Factories[repl].app_scope
    /\ \E k \in DOMAIN Factories[repl].params :
           /\ Factories[repl].params[k].default # ""
           /\ ~Factories[Factories[repl].params[k].default].app_scope

\* the invoke of target that gave m failed in the replacement of orig: the
\* error names the replacement as the failing callable, with orig recorded
\* alongside it, inside the layer of the target
NamesReplacement(m, target, orig) ==
    /\ ~m.ret.ok
    /\ m.ret.err.kind = "HandlerScopeDepRequestedFromAppScope"
    /\ m.ret.err.chain =
           << [kind |-> "InvokableDependencyError",
               invokable |-> root.override_factories[orig], fn_overridden |-> orig],
              [kind |-> "NestedInvokeError", invokable |-> target, fn_overridden |-> ""] >>

\* C30: when the producer that fails to resolve its dependencies is a
\* replacement installed through the override table, the error names the
\* replacement as the failing callable and records the original producer
\* alongside it.
C30_ErrorNamesReplacement ==
    \A c \in DOMAIN ctxs, r \in Requests(scn) :
        (/\ ctxs[c].entered
         /\ IsHandler(c)
         /\ r.op = "invoke"
         /\ Len(Factories[r.dep_or_name.id].params) = 1
         /\ Factories[r.dep_or_name.id].params[1].default \in Overridden
         /\ CannotResolveDeps(
                root.override_factories[Factories[r.dep_or_name.id].params[1].default])) =>
            NamesReplacement(invoke(Machine, c, r.dep_or_name.id), r.dep_or_name.id,
                             Factories[r.dep_or_name.id].params[1].default)

(***************************************************************************)
(* C31: the values of a Request instance and the other Request instances.  *)
(***************************************************************************)
\* the call on c that gave m left every other Request instance as it was
OtherRequestsUntouched(m, c) ==
    \A h \in DOMAIN ctxs : (h # c /\ IsHandler(h)) => m.ctxs[h] = ctxs[h]

\* the values of Request-scoped producers that the events show: returned by a
\* call or passed as an argument
RequestScopedValues(events) ==
    {events[i].val : i \in {j \in DOMAIN events : events[j].op = "call"}}
    \cup UNION {{events[i].args[k] : k \in DOMAIN events[i].args} : i \in DOMAIN events}

RequestedProducers ==
    {r.dep_or_name.id : r \in {q \in Requests(scn) : q.op = "create" /\ q.dep_or_name.explicit}}

\* the tracker inside the construction of producer p
TrackerIn(p) == [prev |-> p, factories_in_stack |-> <<p>>]

\* the two calls ended alike
SameOutcome(m1, m2) ==
    /\ m1.ret = m2.ret
    /\ m1.ctxs = m2.ctxs
    /\ m1.events = m2.events

\* C32: the construction-chain tracker is balanced: after a producer
\* construction returns or fails, the producers under construction and the
\* previous-producer marker are what they were before it started; at the end
\* of every top-level create or invoke, successful or failed, the chain is
\* empty; and every invoke starts with a fresh empty tracker, so that what an
\* earlier call left cannot cause a false cycle or cross-scope error.
C32_TrackerBalanced ==
    /\ creation_ctx = NewCreationContext
    /\ \A c \in DOMAIN ctxs, r \in Requests(scn) :
           ctxs[c].entered =>
               /\ (IF r.op = "create"
                   THEN create(Machine, c, r.dep_type, r.dep_or_name)
                   ELSE invoke(Machine, c, r.dep_or_name.id)).creation_ctx
                      = NewCreationContext
               /\ \A p \in RequestedProducers :
                      IF r.op = "create"
                      THEN create([Machine EXCEPT !.creation_ctx = TrackerIn(p)], c,
                                  r.dep_type, r.dep_or_name).creation_ctx = TrackerIn(p)
                      ELSE SameOutcome(
                               invoke([Machine EXCEPT !.creation_ctx = TrackerIn(p)], c,
                                      r.dep_or_name.id),
                               invoke(Machine, c, r.dep_or_name.id))

\* the invoke of cycle_fn failed on the cycle of cycle_f and cycle_g, two
\* levels down, after sync_foo was built, and the tracker is empty
C32_Witness ==
    /\ last.op = "invoke"
    /\ last.request.dep_or_name.id = "cycle_fn"
    /\ ~last.ret.ok
    /\ last.ret.err.kind = "RuntimeError"
    /\ last.ret.err.cycle = <<"cycle_f", "cycle_g">>
    /\ CallsOf(last.events, "sync_foo") # {}
    /\ creation_ctx = NewCreationContext

(***************************************************************************)
(* C33: a construction that failed.                                        *)
(***************************************************************************)
\* the producers events show as built: called with a value, with no raise of
\* the await or the acquisition after it
BuiltIn(events) ==
    {events[i].fn : i \in {j \in DOMAIN events :
                               events[j].op = "call" /\ events[j].val # NoVal}}
    \ {events[i].fn : i \in {j \in DOMAIN events : events[j].op = "raise"}}

\* the producers events show as called
CalledIn(events) == {events[i].fn : i \in {j \in DOMAIN events : events[j].op = "call"}}

\* the failed creation of fn on c that gave m cached nothing for fn, kept
\* every entry there was and the entries of what it had built before it failed
LeavesNoEntry(m, c, fn) ==
    /\ fn \notin DOMAIN m.ctxs[ScopeOf(c, fn)].cache
    /\ \A c2 \in DOMAIN ctxs : \A g \in DOMAIN ctxs[c2].cache :
           /\ g \in DOMAIN m.ctxs[c2].cache
           /\ m.ctxs[c2].cache[g] = ctxs[c2].cache[g]
    /\ \A g \in BuiltIn(m.events) \ {fn} : g \in DOMAIN m.ctxs[ScopeOf(c, g)].cache

\* the same request made again after the failed one calls again every
\* producer the failed one had called and not cached
CallsAgain(m, again, c) ==
    \A g \in CalledIn(m.events) :
        g \notin DOMAIN m.ctxs[ScopeOf(c, g)].cache => g \in CalledIn(again.events)

\* the machine after the call that gave m
After(m) == [Machine EXCEPT !.ctxs = m.ctxs, !.hist = m.hist]

\* C33: a failed construction is never cached: if a producer, one of its
\* dependencies, its await or its acquisition fails, the cache of the owning
\* scope has no entry for the producer afterwards, the entries recorded
\* before for its successfully built dependencies are kept, and a later
\* request in the same scope invokes the producer again.
C33_FailedConstructionNotCached ==
    \A c \in DOMAIN ctxs, r \in Requests(scn) :
        (/\ ctxs[c].entered
         /\ r.op = "create"
         /\ r.dep_or_name.explicit
         /\ (IsHandler(c) \/ Factories[r.dep_or_name.id].app_scope)
         /\ r.dep_or_name.id \notin DOMAIN ctxs[ScopeOf(c, r.dep_or_name.id)].cache
         /\ ~create(Machine, c, r.dep_type, r.dep_or_name).ret.ok) =>
            /\ LeavesNoEntry(create(Machine, c, r.dep_type, r.dep_or_name), c,
                             r.dep_or_name.id)
            /\ CallsAgain(create(Machine, c, r.dep_type, r.dep_or_name),
                          create(After(create(Machine, c, r.dep_type, r.dep_or_name)),
                                 c, r.dep_type, r.dep_or_name),
                          c)

\* the create of needs_failing on a Request instance has failed on its second
\* dependency: sync_foo, built for the first, is in the cache, needs_failing
\* is not, and failing_async and failing_cm, asked for before, are not either
C33_Witness ==
    /\ last.op = "create"
    /\ ~last.ret.ok
    /\ last.request.dep_or_name.id = "needs_failing"
    /\ IsHandler(last.ctx)
    /\ CalledIn(last.events) = {"sync_foo", "failing_factory"}
    /\ DOMAIN ctxs[last.ctx].cache = {"sync_foo"}
    /\ \E c \in DOMAIN ctxs, fn \in RaisingInAction :
           /\ ctxs[c].entered
           /\ ~create(Machine, c, Foo, D(TRUE, fn)).ret.ok
           /\ \E i \in DOMAIN create(Machine, c, Foo, D(TRUE, fn)).events :
                  create(Machine, c, Foo, D(TRUE, fn)).events[i].op = "raise"

(***************************************************************************)
(* C34: the action flag of a cache entry and the shape analysis.           *)
(***************************************************************************)
\* the need for an action the analysis gives for fn asked for as dep_type
NeedsAction(fn, dep_type) == \E i \in 1..3 : Deltas(fn, dep_type)[i] = 1

\* the request of fn on c in the form the entry records is a hit that gives
\* the entry's value
HitsInRecordedForm(m, entry) ==
    /\ m.ret.ok
    /\ m.ret.val = entry.val
    /\ m.events = <<>>
    /\ m.ctxs = ctxs

\* C34: in every reachable state the action-performed flag of every cache
\* entry (value, requested form, flag) is the need for action that the shape
\* analysis gives for the entry's producer and its recorded requested form,
\* so that a repeated request in exactly the recorded form is a compatible
\* hit and never a double-form or consistency error.
C34_CacheFlagConsistent ==
    \A c \in DOMAIN ctxs :
        ctxs[c].entered =>
            \A fn \in DOMAIN ctxs[c].cache :
                /\ Consistent(fn, ctxs[c].cache[fn].requested_as)
                /\ ctxs[c].cache[fn].action_performed
                       = NeedsAction(fn, ctxs[c].cache[fn].requested_as)
                /\ HitsInRecordedForm(
                       create(Machine, c, ctxs[c].cache[fn].requested_as, D(TRUE, fn)),
                       ctxs[c].cache[fn])

(***************************************************************************)
(* C35: what a double-form rejection leaves behind.                        *)
(***************************************************************************)
\* the request of fn on c in the form of its entry succeeds with the entry's
\* value, from the cache
StillServes(m, entry) ==
    /\ m.ret.ok
    /\ m.ret.val = entry.val
    /\ m.ret.action_performed = entry.action_performed
    /\ m.events = <<>>
    /\ m.ctxs = ctxs

\* C35: a double-form rejection changes nothing: after a request is rejected
\* because the producer is cached in the other form, the cache entry holds the
\* original value, requested form and flag, the release stack is unchanged,
\* and a further request in the original form succeeds with the same value.
C35_DoubleFormRejectionChangesNothing ==
    /\ \A c \in DOMAIN ctxs, r \in Requests(scn) :
           (/\ ctxs[c].entered
            /\ r.op = "create"
            /\ r.dep_or_name.explicit
            /\ ~create(Machine, c, r.dep_type, r.dep_or_name).ret.ok
            /\ create(Machine, c, r.dep_type, r.dep_or_name).ret.err.kind
                   \in DoubleFormKinds) =>
               /\ create(Machine, c, r.dep_type, r.dep_or_name).ctxs = ctxs
               /\ r.dep_or_name.id \in DOMAIN ctxs[ScopeOf(c, r.dep_or_name.id)].cache
    /\ (last.op \in {"create", "invoke"} /\ ~last.ret.ok
            /\ last.ret.err.kind \in DoubleFormKinds) =>
           /\ last.ret.err.factory
                  \in DOMAIN ctxs[ScopeOf(last.ctx, last.ret.err.factory)].cache
           /\ ctxs[ScopeOf(last.ctx, last.ret.err.factory)].cache[last.ret.err.factory]
                  .requested_as = last.ret.err.requested_as
           /\ StillServes(
                  create(Machine, last.ctx, last.ret.err.requested_as,
                         D(TRUE, last.ret.err.factory)),
                  ctxs[ScopeOf(last.ctx, last.ret.err.factory)].cache[last.ret.err.factory])

(***************************************************************************)
(* C36  Resolution terminates: whatever the dependency edges between the   *)
(* producers, cycles included, a top-level create or invoke whose          *)
(* producers terminate eventually returns a value or raises an error, with *)
(* every frame closed, and at no time are more producers under             *)
(* construction than there are distinct producers.                         *)
(***************************************************************************)
CallFinished ==
    /\ resolving.pc \in {"returned", "raised"}
    /\ resolving.frames = <<>>

DepthBounded ==
    Len(factories_in_stack(resolving.frames)) <= Cardinality(Producers)

C36_ResolutionTerminates == <>CallFinished /\ []DepthBounded

\* a call that found a cycle after it had every producer under construction,
\* and has returned the error
C36_Witness ==
    /\ resolving.pc = "raised"
    /\ resolving.frames = <<>>
    /\ resolving.depth = Cardinality(Producers)
    /\ resolving.params["p3"] = <<"p1">>

(***************************************************************************)
(* C37: an implicit factory whose value fails the check of the requested   *)
(* type.                                                                   *)
(***************************************************************************)
\* the failed by-name creation on c that gave m has recorded the value ret of
\* the implicit factory fn in the cache of fn's scope; when fn was not cached
\* before and returns a context manager the creation has entered it, and what
\* it has entered is on the release stack of the scope
RecordedBeforeCheck(m, ret, c, fn) ==
    /\ fn \in DOMAIN m.ctxs[ScopeOf(c, fn)].cache
    /\ m.ctxs[ScopeOf(c, fn)].cache[fn].val = ret.val
    /\ m.ctxs[ScopeOf(c, fn)].cache[fn].action_performed = ret.action_performed
    /\ (/\ fn \notin DOMAIN ctxs[ScopeOf(c, fn)].cache
        /\ ReturnedLayers(fn) # <<>>
        /\ Head(ReturnedLayers(fn)) \in {"cm", "acm"}) =>
           \E v \in EnteredIn(m.events) : v.fn = fn
    /\ \A v \in EnteredIn(m.events) :
           \E i \in DOMAIN m.ctxs[ScopeOf(c, v.fn)].exit_stack :
               m.ctxs[ScopeOf(c, v.fn)].exit_stack[i] = v

\* the same request made again after the one that gave m fails with the same
\* error, calls nothing and leaves the caches and release stacks as they were
FailsAgainFromCache(m, again) ==
    /\ ~again.ret.ok
    /\ again.ret.err = m.ret.err
    /\ CalledIn(again.events) = {}
    /\ again.ctxs = m.ctxs

\* C37: when the value of an implicit factory fails the check of the
\* requested type, the value is already recorded in the cache of the owning
\* scope and its resource, if any, acquired: a repeated request by the name in
\* that scope fails with the same shape-mismatch error without invoking the
\* factory again, and the acquired resource is released when the scope is left.
C37_ImplicitValueCachedBeforeCheck ==
    /\ \A c \in DOMAIN ctxs, r \in Requests(scn) :
           (/\ ctxs[c].entered
            /\ r.op = "create"
            /\ ~r.dep_or_name.explicit
            /\ NearestImplicit(c, r.dep_or_name.id) # ""
            /\ NotOfType(Produced(c, r.dep_type, r.dep_or_name.id), r.dep_type.cls)) =>
               /\ CreateReportsMismatch(create(Machine, c, r.dep_type, r.dep_or_name),
                                        Produced(c, r.dep_type, r.dep_or_name.id),
                                        c, r.dep_type, r.dep_or_name.id)
               /\ RecordedBeforeCheck(create(Machine, c, r.dep_type, r.dep_or_name),
                                      Produced(c, r.dep_type, r.dep_or_name.id),
                                      c, NearestImplicit(c, r.dep_or_name.id))
               /\ FailsAgainFromCache(
                      create(Machine, c, r.dep_type, r.dep_or_name),
                      create(After(create(Machine, c, r.dep_type, r.dep_or_name)),
                             c, r.dep_type, r.dep_or_name))
    /\ last.op = "exit" =>
           \A i \in DOMAIN last.hist.acquired :
               \E j \in DOMAIN last.hist.released :
                   last.hist.released[j] = last.hist.acquired[i]

\* the repeated request for foo on a Request instance whose implicit factory
\* cm_bar gives a Bar has failed on the type without a call of cm_bar, whose
\* resource is on the release stack of the instance
C37_Witness ==
    /\ last.op = "create"
    /\ IsHandler(last.ctx)
    /\ last.request.dep_or_name = D(FALSE, "foo")
    /\ ~last.ret.ok
    /\ IsShapeMismatch(last.ret.err, Foo, "foo", "implicit", "Bar")
    /\ CalledIn(last.events) = {}
    /\ "cm_bar" \in DOMAIN ctxs[last.ctx].cache
    /\ \E i \in DOMAIN ctxs[last.ctx].exit_stack :
           ctxs[last.ctx].exit_stack[i].fn = "cm_bar"

(***************************************************************************)
(* C38: the args of an invocation error.                                   *)
(***************************************************************************)
\* ret is an InvokableDependencyError or a NestedInvokeError built without an
\* overridden producer
WrapsWithoutOverride(ret) ==
    /\ ~ret.ok
    /\ ret.err.chain # <<>>
    /\ ret.err.chain[Len(ret.err.chain)].fn_overridden = ""

\* the args of err are the callable and the error it wraps
KeepsCause(err, fn) ==
    /\ Len(ErrorArgs(err)) = 2
    /\ ErrorArgs(err)[1] = fn
    /\ ErrorArgs(err)[2] = WrappedError(err)

\* two errors with different causes have different args
ToldApart(err1, err2) ==
    WrappedError(err1) # WrappedError(err2) =>
        \/ Len(ErrorArgs(err1)) # Len(ErrorArgs(err2))
        \/ \E i \in DOMAIN ErrorArgs(err1) : ErrorArgs(err1)[i] # ErrorArgs(err2)[i]

\* C38: invocation errors keep their cause in their comparable payload: the
\* args of an InvokableDependencyError or NestedInvokeError built without an
\* overridden producer contain the failing callable and the wrapped error, so
\* that two such errors for the same callable with different causes differ in
\* their args.
C38_InvokeErrorsKeepCause ==
    \A c1 \in DOMAIN ctxs, c2 \in DOMAIN ctxs, r \in Requests(scn) :
        (/\ ctxs[c1].entered
         /\ ctxs[c2].entered
         /\ r.op = "invoke"
         /\ WrapsWithoutOverride(invoke(Machine, c1, r.dep_or_name.id).ret)
         /\ WrapsWithoutOverride(invoke(Machine, c2, r.dep_or_name.id).ret)) =>
            /\ KeepsCause(invoke(Machine, c1, r.dep_or_name.id).ret.err, r.dep_or_name.id)
            /\ ToldApart(invoke(Machine, c1, r.dep_or_name.id).ret.err,
                         invoke(Machine, c2, r.dep_or_name.id).ret.err)

=============================================================================
